---------------------------- MODULE Spec2Model ----------------------------
(***************************************************************************)
(* Model of the WebSocket clients of the repository.  The repository holds *)
(* several generations of the same client (src/server.js and the files     *)
(* under src/unnamed); each generation is one program with its own module  *)
(* state.  Each program is modelled by one record-valued variable whose    *)
(* fields are the module-level variables of that program; every handler,   *)
(* timer callback and helper function is an operator from state to state.  *)
(* The variable prog says which program is running.                        *)
(***************************************************************************)
EXTENDS Naturals, Integers, Sequences, FiniteSets, TLC

VARIABLES prog, p000, v470, p002, fin, p006a, p004, p006b, hb, p006c

vars == <<prog, p000, v470, p002, fin, p006a, p004, p006b, hb, p006c>>

\* the variables each program leaves alone
OthersP000 == <<prog, v470, p002, fin, p006a, p004, p006b, hb, p006c>>
OthersV470 == <<prog, p000, p002, fin, p006a, p004, p006b, hb, p006c>>
OthersP002 == <<prog, p000, v470, fin, p006a, p004, p006b, hb, p006c>>
OthersFin == <<prog, p000, v470, p002, p006a, p004, p006b, hb, p006c>>
OthersP006a == <<prog, p000, v470, p002, fin, p004, p006b, hb, p006c>>
OthersP004 == <<prog, p000, v470, p002, fin, p006a, p006b, hb, p006c>>
OthersP006b == <<prog, p000, v470, p002, fin, p006a, p004, hb, p006c>>
OthersHeartbeat == <<prog, p000, v470, p002, fin, p006a, p004, p006b, p006c>>
OthersP006c == <<prog, p000, v470, p002, fin, p006a, p004, p006b, hb>>

(***************************************************************************)
(* Bounds of the model.                                                    *)
(***************************************************************************)
\* number of WebSocket objects one run may create
MaxSockets == 3
\* ... and one run of a program that connects from a loop (mainLoop)
MaxLoopSockets == 2
\* number of inbound frames (messages, pings, pongs) the server sends in one run
MaxFrames == 2
\* number of outbound messages recorded per socket
MaxSent == 5
\* number of stop signals (SIGINT/SIGTERM) delivered in one run
MaxSignals == 2
\* MAX_LOG_ENTRIES, the configured count cap of the event logs
MaxLogEntries == 2
\* MAX_LOG_BYTES, the configured byte cap of the event log of server.js
MaxLogBytes == 3

(***************************************************************************)
(* The "ws" library: a WebSocket object as the programs observe it.        *)
(*   readyState  CONNECTING / OPEN / CLOSING / CLOSED                      *)
(*   errDue      an 'error' event is still to be emitted (close() called   *)
(*               before the connection was established)                    *)
(*   closeCalls  number of close() calls that reached the transport        *)
(*   sent        application messages and control frames accepted by       *)
(*               send()/pong()/ping() on this socket, in order             *)
(***************************************************************************)
NoSock == 0

LibSocket == [readyState |-> "CONNECTING", errDue |-> FALSE, closeCalls |-> 0, sent |-> <<>>]

IsLive(k) == k.readyState \in {"CONNECTING", "OPEN"}

\* ws.close(): starts the closing handshake of an open socket, aborts the
\* handshake of a connecting one (an 'error' and a 'close' follow), and does
\* nothing on a closing or closed one.
LibClose(k) ==
  CASE k.readyState = "OPEN" -> [k EXCEPT !.readyState = "CLOSING", !.closeCalls = @ + 1]
    [] k.readyState = "CONNECTING" -> [k EXCEPT !.readyState = "CLOSING", !.errDue = TRUE, !.closeCalls = @ + 1]
    [] OTHER -> k

\* ws.send()/ws.pong()/ws.ping() throw on a connecting socket and transmit
\* only on an open one (on a closing or closed socket the data is dropped;
\* the error goes to the callback when one is given).
LibSend(k, m) == IF k.readyState = "OPEN" THEN [k EXCEPT !.sent = Append(@, m)] ELSE k

\* the library sets CLOSING before it emits 'error', CLOSED before 'close'
LibOnError(k) == [k EXCEPT !.readyState = "CLOSING", !.errDue = FALSE]
LibOnClose(k) == [k EXCEPT !.readyState = "CLOSED"]

CanOpen(k)  == k.readyState = "CONNECTING"
CanError(k) == k.readyState \in {"CONNECTING", "OPEN"} \/ k.errDue
CanClose(k) == k.readyState \in {"OPEN", "CLOSING"} /\ ~k.errDue
CanRecv(k)  == k.readyState = "OPEN"

\* the sockets of a program state that are connecting or open
LiveSockets(s) == {i \in DOMAIN s.socks : IsLive(s.socks[i])}

\* no socket of the state holds more recorded messages than the model keeps
SentBounded(s) == \A i \in DOMAIN s.socks : Len(s.socks[i].sent) <= MaxSent

(***************************************************************************)
(* Inbound frames.  A frame is what JSON.parse makes of its text:          *)
(*   kind     "nonjson" (parse fails), "null", or "object"                 *)
(*   id       the id field (0: absent)                                     *)
(*   connect  "absent", "noclient" ({...} without client), "client"        *)
(*   result   the result field is present and truthy                       *)
(*   push     "absent" or the channel of the push                          *)
(*   ping     the ping field is present                                    *)
(*   body     the publication carried by a push ("none": no payload)       *)
(*   size     the size of the frame's content, in the unit of MaxLogBytes  *)
(***************************************************************************)
Obj == [kind |-> "object", id |-> 0, connect |-> "absent", result |-> FALSE,
        push |-> "absent", ping |-> FALSE, body |-> "none", size |-> 1]

FrameEmpty      == Obj
FrameConnectAck == [Obj EXCEPT !.id = 1, !.connect = "client", !.size = 2]
FramePush       == [Obj EXCEPT !.push = "csgorun:crash", !.body = "payload", !.size = 2]
FramePing       == [Obj EXCEPT !.ping = TRUE]
FrameNonJson    == [Obj EXCEPT !.kind = "nonjson"]
\* the JSON text null: JSON.parse succeeds and returns null
FrameNull       == [Obj EXCEPT !.kind = "null"]
\* a connect ack whose connect object alone is larger than the byte cap
FrameConnectAckBig == [FrameConnectAck EXCEPT !.size = MaxLogBytes + 1]

Frames == {FrameEmpty, FrameConnectAck, FramePush, FramePing, FrameNonJson}

\* Object.keys(parsed).length === 0
IsEmptyObject(m) ==
  /\ m.kind = "object" /\ m.id = 0 /\ m.connect = "absent" /\ ~m.result
  /\ m.push = "absent" /\ ~m.ping

\* a log entry: its type tag, the message content it carries, if any, and
\* the size of its JSON text
Entry(type) == [type |-> type, body |-> "none", size |-> 1]
EntryWith(type, m) == [type |-> type, body |-> m.body, size |-> m.size]
\* an entry that carries fields of the message but not the publication
EntrySized(type, m) == [type |-> type, body |-> "none", size |-> m.size]


(***************************************************************************)
(* Program p000: src/unnamed/part_000 (startWS with restart())             *)
(*   ws              the module variable: index of the current socket      *)
(*   socks           every WebSocket created so far; subTimer is the       *)
(*                   200 ms subscribe timer armed by that socket's 'open'  *)
(*   fetching        startWS() invocations waiting for getToken()          *)
(*   startTimers     pending setTimeout(startWS, ...) callbacks            *)
(*   reconnectTimer  the 5 min forced-reconnect timer and the socket whose *)
(*                   'open' armed it                                       *)
(*   pingTimestamp   TRUE when a transport ping time is recorded           *)
(*   crashed         an exception escaped a callback: the process is gone  *)
(*   frames          inbound frames delivered so far (bounds the run)      *)
(***************************************************************************)
P000Socket == [readyState |-> "CONNECTING", errDue |-> FALSE, closeCalls |-> 0,
               sent |-> <<>>, subTimer |-> FALSE]

P000Start ==
  [ws |-> NoSock, socks |-> <<>>, fetching |-> 1, startTimers |-> 0,
   reconnectTimer |-> [pending |-> FALSE, owner |-> NoSock],
   pingTimestamp |-> FALSE, crashed |-> FALSE, frames |-> 0]

\* an uncaught exception ends the process: sockets and timers die with it
P000Crash == [P000Start EXCEPT !.crashed = TRUE, !.fetching = 0]

\* an expression ws.send(...)/ws.pong(...) on the module variable ws throws
P000WsThrows(s) == s.ws = NoSock \/ s.socks[s.ws].readyState = "CONNECTING"

P000WsSend(s, m) == [s EXCEPT !.socks[s.ws] = LibSend(@, m)]

\* startWS, after getToken() returned a token
p000_startWS_connect(s) ==
  [s EXCEPT !.fetching = @ - 1,
            !.socks = Append(@, P000Socket),
            !.ws = Len(s.socks) + 1]

\* startWS, after getToken() returned nothing: retry in 3 s
p000_startWS_retry(s) ==
  [s EXCEPT !.fetching = @ - 1, !.startTimers = @ + 1]

p000_restart(s) == [s EXCEPT !.startTimers = @ + 1]

p000_safeClose(s) ==
  IF s.ws # NoSock /\ s.socks[s.ws].readyState = "OPEN"
  THEN [s EXCEPT !.socks[s.ws] = LibClose(@)]
  ELSE s

p000_onOpen(s, i) ==
  LET s1 == [s EXCEPT !.pingTimestamp = FALSE] IN
  IF P000WsThrows(s1) THEN P000Crash
  ELSE [P000WsSend(s1, "connect") EXCEPT
          !.socks[i].subTimer = TRUE,
          !.reconnectTimer = [pending |-> TRUE, owner |-> i]]

\* the 200 ms timer of the 'open' handler: one subscribe per channel
p000_subscribeTimer(s, i) ==
  LET s1 == [s EXCEPT !.socks[i].subTimer = FALSE] IN
  IF P000WsThrows(s1) THEN P000Crash
  ELSE P000WsSend(P000WsSend(s1, "subscribe100"), "subscribe101")

\* the 5 min timer of the 'open' handler
p000_reconnectTimerFire(s) ==
  p000_safeClose([s EXCEPT !.reconnectTimer.pending = FALSE])

p000_onPing(s, i) ==
  LET s1 == [s EXCEPT !.pingTimestamp = TRUE] IN
  IF P000WsThrows(s1) THEN P000Crash ELSE P000WsSend(s1, "pong")

\* high: the measured latency exceeds 2000 ms
p000_onPong(s, i, high) ==
  IF s.pingTimestamp /\ high THEN p000_safeClose(s) ELSE s

p000_onClose(s, i) == p000_restart(s)

p000_onError(s, i) == p000_restart(s)

\* the program is running and the process is alive
P000Running == prog = "p000" /\ ~p000.crashed

P000_TokenOk ==
  /\ P000Running
  /\ p000.fetching > 0
  /\ Len(p000.socks) < MaxSockets
  /\ p000' = p000_startWS_connect(p000)
  /\ UNCHANGED OthersP000

P000_TokenMissing ==
  /\ P000Running
  /\ p000.fetching > 0
  /\ p000' = p000_startWS_retry(p000)
  /\ UNCHANGED OthersP000

P000_StartTimer ==
  /\ P000Running
  /\ p000.startTimers > 0
  /\ p000' = [p000 EXCEPT !.startTimers = @ - 1, !.fetching = @ + 1]
  /\ UNCHANGED OthersP000

P000_Open ==
  /\ P000Running
  /\ \E i \in DOMAIN p000.socks :
       /\ CanOpen(p000.socks[i])
       /\ p000' = p000_onOpen([p000 EXCEPT !.socks[i].readyState = "OPEN"], i)
  /\ UNCHANGED OthersP000

P000_SubscribeTimer ==
  /\ P000Running
  /\ \E i \in DOMAIN p000.socks :
       /\ p000.socks[i].subTimer
       /\ p000' = p000_subscribeTimer(p000, i)
  /\ UNCHANGED OthersP000

P000_ReconnectTimer ==
  /\ P000Running
  /\ p000.reconnectTimer.pending
  /\ p000' = p000_reconnectTimerFire(p000)
  /\ UNCHANGED OthersP000

P000_Ping ==
  /\ P000Running
  /\ \E i \in DOMAIN p000.socks :
       /\ CanRecv(p000.socks[i])
       /\ p000.frames < MaxFrames
       /\ p000' = p000_onPing([p000 EXCEPT !.frames = @ + 1], i)
  /\ UNCHANGED OthersP000

P000_Pong ==
  /\ P000Running
  /\ \E i \in DOMAIN p000.socks, high \in BOOLEAN :
       /\ CanRecv(p000.socks[i])
       /\ p000.frames < MaxFrames
       /\ p000' = p000_onPong([p000 EXCEPT !.frames = @ + 1], i, high)
  /\ UNCHANGED OthersP000

P000_Close ==
  /\ P000Running
  /\ \E i \in DOMAIN p000.socks :
       /\ CanClose(p000.socks[i])
       /\ p000' = p000_onClose([p000 EXCEPT !.socks[i] = LibOnClose(@)], i)
  /\ UNCHANGED OthersP000

P000_Error ==
  /\ P000Running
  /\ \E i \in DOMAIN p000.socks :
       /\ CanError(p000.socks[i])
       /\ p000' = p000_onError([p000 EXCEPT !.socks[i] = LibOnError(@)], i)
  /\ UNCHANGED OthersP000

NextP000 ==
  \/ P000_TokenOk
  \/ P000_TokenMissing
  \/ P000_StartTimer
  \/ P000_Open
  \/ P000_SubscribeTimer
  \/ P000_ReconnectTimer
  \/ P000_Ping
  \/ P000_Pong
  \/ P000_Close
  \/ P000_Error

(***************************************************************************)
(* Program v470: src/server.js lines 1-250 ("v4.7.0 STABLE-PONG")          *)
(*   ws, stopped, attempt, lastConnectClientId   the module variables      *)
(*   pongTimer      the scheduled application pong; armedStopped: it was   *)
(*                  armed after the stop signal, so the 500 ms exit timer  *)
(*                  precedes it                                            *)
(*   backoffTimer   the reconnect timer and its delay in ms                *)
(*   socks          per socket: gotConnectAck (closure variable) and       *)
(*                  subTimer, the 120 ms subscribe timer                   *)
(*   fetching       startClient() invocations waiting for getToken()       *)
(*   retryTimers    pending setTimeout(startClient, 3000)                  *)
(*   exitTimers     pending setTimeout(process.exit, 500)                  *)
(*   exited         process.exit(0) was called                             *)
(*   signals, frames   stop signals and inbound frames delivered so far    *)
(***************************************************************************)
BASE_BACKOFF_MS == 1000
MAX_BACKOFF_MS == 300000

V470Socket == [readyState |-> "CONNECTING", errDue |-> FALSE, closeCalls |-> 0,
               sent |-> <<>>, gotConnectAck |-> FALSE, subTimer |-> FALSE]

V470Start ==
  [ws |-> NoSock, socks |-> <<>>, stopped |-> FALSE, attempt |-> 0,
   pongTimer |-> [pending |-> FALSE, armedStopped |-> FALSE],
   lastConnectClientId |-> "null",
   backoffTimer |-> [pending |-> FALSE, delay |-> 0],
   fetching |-> 1, retryTimers |-> 0, exitTimers |-> 0, exited |-> FALSE,
   signals |-> 0, frames |-> 0]

\* process.exit(0): sockets and timers die with the process
V470Exit == [V470Start EXCEPT !.exited = TRUE, !.stopped = TRUE, !.fetching = 0]

RECURSIVE Pow(_, _)
Pow(b, n) == IF n = 0 THEN 1 ELSE b * Pow(b, n - 1)

Min(a, b) == IF a < b THEN a ELSE b

\* Math.min(MAX_BACKOFF_MS, BASE_BACKOFF_MS * Math.pow(2, Math.min(10, attempt)))
v470_backoff(attempt) ==
  Min(MAX_BACKOFF_MS, BASE_BACKOFF_MS * Pow(2, Min(10, attempt)))

V470WsOpen(s) == s.ws # NoSock /\ s.socks[s.ws].readyState = "OPEN"

\* ws.send(...) inside try/catch: a throw is swallowed
V470WsSend(s, m) ==
  IF s.ws = NoSock THEN s ELSE [s EXCEPT !.socks[s.ws] = LibSend(@, m)]

v470_sendBinaryPong(s) ==
  IF ~V470WsOpen(s) THEN s ELSE V470WsSend(s, "pong_type3")

v470_scheduleNextPong(s) ==
  IF ~V470WsOpen(s) THEN s
  ELSE [s EXCEPT !.pongTimer = [pending |-> TRUE, armedStopped |-> s.stopped]]

v470_clearPongTimer(s) ==
  [s EXCEPT !.pongTimer = [pending |-> FALSE, armedStopped |-> FALSE]]

v470_safeClose(s) ==
  IF V470WsOpen(s) THEN [s EXCEPT !.socks[s.ws] = LibClose(@)] ELSE s

\* startClient(), up to the await of getToken()
v470_startClient(s) ==
  IF s.stopped THEN s ELSE [s EXCEPT !.fetching = @ + 1]

\* startClient(), after getToken() returned a token
v470_startClient_connect(s) ==
  [s EXCEPT !.fetching = @ - 1,
            !.socks = Append(@, V470Socket),
            !.ws = Len(s.socks) + 1]

\* startClient(), after getToken() returned nothing
v470_startClient_retry(s) ==
  [s EXCEPT !.fetching = @ - 1, !.retryTimers = @ + 1]

\* the 'open' handler without its first statement (attempt = 0)
v470_onOpen_keepAttempt(s, i) ==
  V470WsSend(s, "connect")

v470_onOpen(s, i) ==
  V470WsSend([s EXCEPT !.attempt = 0], "connect")

\* (m.id === 1 && m.connect) || (m.result && m.id === 1) || (m.connect && m.connect.client)
v470_isConnectAck(m) ==
  \/ m.id = 1 /\ m.connect # "absent"
  \/ m.result /\ m.id = 1
  \/ m.connect = "client"

\* handleJsonMessage without the gotConnectAck test: every connect ack
\* subscribes and re-arms the pong timer
v470_handleJsonMessage_everyAck(s, i, m) ==
  IF m.ping THEN s
  ELSE IF v470_isConnectAck(m) THEN
    v470_scheduleNextPong(
      [s EXCEPT !.socks[i].gotConnectAck = TRUE,
                !.socks[i].subTimer = TRUE,
                !.lastConnectClientId =
                   IF m.connect = "client" THEN "client" ELSE "null"])
  ELSE s

\* handleJsonMessage for one message m received by socket i
v470_handleJsonMessage(s, i, m) ==
  IF m.ping THEN s
  ELSE IF v470_isConnectAck(m) THEN
    IF ~s.socks[i].gotConnectAck THEN
      v470_scheduleNextPong(
        [s EXCEPT !.socks[i].gotConnectAck = TRUE,
                  !.socks[i].subTimer = TRUE,
                  !.lastConnectClientId =
                     IF m.connect = "client" THEN "client" ELSE "null"])
    ELSE s
  ELSE s

\* the 'message' handler: JSON.parse, then handleJsonMessage; every
\* exception is caught
v470_onMessage(s, i, m) ==
  IF m.kind = "object" THEN v470_handleJsonMessage(s, i, m) ELSE s

\* the 120 ms timer started by the connect ack: one subscribe per channel
v470_subscribeTimer(s, i) ==
  V470WsSend(V470WsSend([s EXCEPT !.socks[i].subTimer = FALSE],
                        "subscribe100"), "subscribe101")

\* a timer callback that sends the pong and does not call scheduleNextPong
v470_pongTimerFire_once(s) ==
  v470_sendBinaryPong([s EXCEPT !.pongTimer.pending = FALSE])

v470_pongTimerFire(s) ==
  v470_scheduleNextPong(
    v470_sendBinaryPong([s EXCEPT !.pongTimer.pending = FALSE]))

\* a 'close' handler that computes the delay before it counts the attempt
v470_onClose_delayFirst(s, i) ==
  LET s1 == v470_clearPongTimer(s)
  IN [s1 EXCEPT !.attempt = @ + 1,
                !.backoffTimer = [pending |-> TRUE, delay |-> v470_backoff(s1.attempt)]]

v470_onClose(s, i) ==
  LET s1 == v470_clearPongTimer(s)
      n  == s1.attempt + 1
  IN [s1 EXCEPT !.attempt = n,
                !.backoffTimer = [pending |-> TRUE, delay |-> v470_backoff(n)]]

v470_onError(s, i) ==
  IF s.ws = NoSock THEN s ELSE [s EXCEPT !.socks[s.ws] = LibClose(@)]

\* a signal handler that closes and restarts, as safeCloseAndRestart of
\* src/unnamed/part_004 does
v470_onSignal_restart(s) ==
  [v470_safeClose([s EXCEPT !.stopped = TRUE])
     EXCEPT !.exitTimers = @ + 1, !.retryTimers = @ + 1]

\* the SIGINT / SIGTERM handler
v470_onSignal(s) ==
  [v470_safeClose([s EXCEPT !.stopped = TRUE]) EXCEPT !.exitTimers = @ + 1]

V470Running == prog = "v470" /\ ~v470.exited

V470_TokenOk ==
  /\ V470Running
  /\ v470.fetching > 0
  /\ Len(v470.socks) < MaxSockets
  /\ v470' = v470_startClient_connect(v470)
  /\ UNCHANGED OthersV470

V470_TokenMissing ==
  /\ V470Running
  /\ v470.fetching > 0
  /\ v470' = v470_startClient_retry(v470)
  /\ UNCHANGED OthersV470

V470_RetryTimer ==
  /\ V470Running
  /\ v470.retryTimers > 0
  /\ v470' = v470_startClient([v470 EXCEPT !.retryTimers = @ - 1])
  /\ UNCHANGED OthersV470

\* the backoff timer (2000 ms at least) was armed by a 'close'; a 120 ms
\* subscribe timer armed before that 'close' expires first
V470_BackoffTimer ==
  /\ V470Running
  /\ v470.backoffTimer.pending
  /\ \A i \in DOMAIN v470.socks : ~v470.socks[i].subTimer
  /\ v470' = v470_startClient([v470 EXCEPT !.backoffTimer.pending = FALSE])
  /\ UNCHANGED OthersV470

V470_Open ==
  /\ V470Running
  /\ \E i \in DOMAIN v470.socks :
       /\ CanOpen(v470.socks[i])
       /\ v470' = v470_onOpen([v470 EXCEPT !.socks[i].readyState = "OPEN"], i)
  /\ UNCHANGED OthersV470

V470_Message ==
  /\ V470Running
  /\ v470.frames < MaxFrames
  /\ \E i \in DOMAIN v470.socks, m \in Frames :
       /\ CanRecv(v470.socks[i])
       /\ v470' = v470_onMessage([v470 EXCEPT !.frames = @ + 1], i, m)
  /\ UNCHANGED OthersV470

V470_SubscribeTimer ==
  /\ V470Running
  /\ \E i \in DOMAIN v470.socks :
       /\ v470.socks[i].subTimer
       /\ v470' = v470_subscribeTimer(v470, i)
  /\ SentBounded(v470')
  /\ UNCHANGED OthersV470

V470_PongTimer ==
  /\ V470Running
  /\ v470.pongTimer.pending
  /\ ~v470.pongTimer.armedStopped
  /\ v470' = v470_pongTimerFire(v470)
  /\ SentBounded(v470')
  /\ UNCHANGED OthersV470

V470_Close ==
  /\ V470Running
  /\ \E i \in DOMAIN v470.socks :
       /\ CanClose(v470.socks[i])
       /\ v470' = v470_onClose([v470 EXCEPT !.socks[i] = LibOnClose(@)], i)
  /\ UNCHANGED OthersV470

V470_Error ==
  /\ V470Running
  /\ \E i \in DOMAIN v470.socks :
       /\ CanError(v470.socks[i])
       /\ v470' = v470_onError([v470 EXCEPT !.socks[i] = LibOnError(@)], i)
  /\ UNCHANGED OthersV470

V470_Signal ==
  /\ V470Running
  /\ v470.signals < MaxSignals
  /\ v470' = v470_onSignal([v470 EXCEPT !.signals = @ + 1])
  /\ UNCHANGED OthersV470

V470_ExitTimer ==
  /\ V470Running
  /\ v470.exitTimers > 0
  /\ v470' = V470Exit
  /\ UNCHANGED OthersV470

NextV470 ==
  \/ V470_TokenOk
  \/ V470_TokenMissing
  \/ V470_RetryTimer
  \/ V470_BackoffTimer
  \/ V470_Open
  \/ V470_Message
  \/ V470_SubscribeTimer
  \/ V470_PongTimer
  \/ V470_Close
  \/ V470_Error
  \/ V470_Signal
  \/ V470_ExitTimer

(***************************************************************************)
(* Program p002: src/unnamed/part_002 (runOnce / mainLoop, reactive PONG)  *)
(*   ws             the module variable                                    *)
(*   circularLogs   the event log                                          *)
(*   pc             where mainLoop/runOnce is suspended:                   *)
(*                    "fetch"        await fetchToken()                    *)
(*                    "token_wait"   the 3 s wait after a missing token    *)
(*                    "await_open"   await ws.once("open")                 *)
(*                    "sub_wait"     the 200 ms wait before subscribing    *)
(*                    "await_end"    await ws.once("close"/"error")        *)
(*                    "backoff_wait" the backoff wait of mainLoop          *)
(*   backoff        mainLoop's local variable, in 1/64 ms (the values      *)
(*                  1000 * 1.5^k are multiples of 1/64 up to the cap)      *)
(*   ended          the socket whose session preceded the backoff wait     *)
(*                  (NoSock: runOnce returned for a missing token)         *)
(*   socks          per socket: acked and errored record that a connect    *)
(*                  ack was received and that 'error' was emitted          *)
(***************************************************************************)
P002_BACKOFF_START == 1000
P002_BACKOFF_MAX == 30000

P002Socket == [readyState |-> "CONNECTING", errDue |-> FALSE, closeCalls |-> 0,
               sent |-> <<>>, acked |-> FALSE, errored |-> FALSE]

P002Start ==
  [ws |-> NoSock, socks |-> <<>>, circularLogs |-> <<>>, pc |-> "fetch",
   backoff |-> 64 * P002_BACKOFF_START, ended |-> NoSock, frames |-> 0]

\* circularLogs.push(o); splice the head when longer than MAX_LOG_ENTRIES
p002_pushLog(s, o) ==
  LET logs == Append(s.circularLogs, o)
  IN [s EXCEPT !.circularLogs =
        IF Len(logs) > MaxLogEntries
        THEN SubSeq(logs, Len(logs) - MaxLogEntries + 1, Len(logs))
        ELSE logs]

\* wsInstance.send / ws.send inside try/catch on socket i
P002Send(s, i, m) == [s EXCEPT !.socks[i] = LibSend(@, m)]

\* sendBinaryPong of runOnce: ws.send(makeBinaryJsonPong(), {binary: true})
p002_sendBinaryPong(s) ==
  p002_pushLog(P002Send(s, s.ws, "pong_type3"), Entry("binary_pong_sent"))

\* runOnce after fetchToken() returned a token, up to the await of 'open'
p002_runOnce_connect(s) ==
  LET s1 == p002_pushLog(p002_pushLog(s, Entry("token_fetch")), Entry("start_connect"))
  IN [s1 EXCEPT !.socks = Append(@, P002Socket),
                !.ws = Len(s.socks) + 1,
                !.pc = "await_open"]

\* runOnce after fetchToken() returned nothing
p002_runOnce_noToken(s) ==
  [p002_pushLog(s, Entry("token_fetch")) EXCEPT !.pc = "token_wait"]

\* runOnce resumed by 'open': send the connect object, then wait 200 ms
p002_runOnce_opened(s) ==
  [p002_pushLog(P002Send(s, s.ws, "connect"), Entry("connect_sent"))
     EXCEPT !.pc = "sub_wait"]

\* runOnce after the 200 ms wait: subscribe, then wait for 'close' or 'error'
p002_runOnce_subscribe(s) ==
  [p002_pushLog(P002Send(s, s.ws, "subscribe100"), Entry("subscribe_sent"))
     EXCEPT !.pc = "await_end"]

\* runOnce returns; mainLoop waits for backoff ms
p002_runOnce_return(s, i) == [s EXCEPT !.pc = "backoff_wait", !.ended = i]

\* mainLoop after the wait: backoff = Math.min(30000, backoff * 1.5)
p002_mainLoop_next(s) ==
  [s EXCEPT !.backoff = Min(64 * P002_BACKOFF_MAX, (s.backoff * 3) \div 2),
            !.pc = "fetch"]

p002_onOpen(s, i) ==
  LET s1 == p002_pushLog(s, Entry("ws_open")) IN
  IF s1.pc = "await_open" /\ s1.ws = i THEN p002_runOnce_opened(s1) ELSE s1

p002_onPing(s, i) ==
  LET s1 == p002_pushLog(s, Entry("transport_ping"))
      s2 == p002_pushLog(P002Send(s1, i, "transport_pong"), Entry("transport_pong_sent"))
  IN p002_pushLog(p002_sendBinaryPong(s2), Entry("binary_pong_sent_on_transport_ping"))

p002_onPong(s, i) == p002_pushLog(s, Entry("transport_pong_received"))

p002_onMessage(s, i, m) ==
  IF m.kind = "object" /\ m.push # "absent" THEN
    p002_pushLog(s, Entry("push_received"))
  ELSE IF m.kind = "object" /\ m.ping THEN
    LET s1 == p002_pushLog(s, Entry("centrifugo_ping"))
        s2 == p002_pushLog(P002Send(s1, i, "pong_json"), Entry("centrifugo_pong_sent"))
    IN p002_pushLog(p002_sendBinaryPong(s2), Entry("binary_pong_sent_on_centrifugo_ping"))
  ELSE IF m.kind = "object" /\ ((m.result /\ m.id = 1) \/ (m.id = 1 /\ m.connect # "absent")) THEN
    [p002_pushLog(s, EntryWith("connect_ack_or_info", m)) EXCEPT !.socks[i].acked = TRUE]
  ELSE
    p002_pushLog(s, EntryWith("message_logged", m))

p002_onClose(s, i) ==
  LET s1 == p002_pushLog(s, Entry("ws_close")) IN
  IF s1.pc = "await_end" /\ s1.ws = i THEN p002_runOnce_return(s1, i) ELSE s1

p002_onError(s, i) ==
  LET s1 == p002_pushLog([s EXCEPT !.socks[i].errored = TRUE], Entry("ws_error")) IN
  IF s1.pc = "await_end" /\ s1.ws = i THEN p002_runOnce_return(s1, i) ELSE s1

P002Running == prog = "p002"

P002_TokenOk ==
  /\ P002Running
  /\ p002.pc = "fetch"
  /\ Len(p002.socks) < MaxLoopSockets
  /\ p002' = p002_runOnce_connect(p002)
  /\ UNCHANGED OthersP002

P002_TokenMissing ==
  /\ P002Running
  /\ p002.pc = "fetch"
  /\ p002' = p002_runOnce_noToken(p002)
  /\ UNCHANGED OthersP002

P002_TokenWait ==
  /\ P002Running
  /\ p002.pc = "token_wait"
  /\ p002' = p002_runOnce_return(p002, NoSock)
  /\ UNCHANGED OthersP002

P002_SubWait ==
  /\ P002Running
  /\ p002.pc = "sub_wait"
  /\ p002' = p002_runOnce_subscribe(p002)
  /\ UNCHANGED OthersP002

P002_BackoffWait ==
  /\ P002Running
  /\ p002.pc = "backoff_wait"
  /\ p002' = p002_mainLoop_next(p002)
  /\ UNCHANGED OthersP002

P002_Open ==
  /\ P002Running
  /\ \E i \in DOMAIN p002.socks :
       /\ CanOpen(p002.socks[i])
       /\ p002' = p002_onOpen([p002 EXCEPT !.socks[i].readyState = "OPEN"], i)
  /\ UNCHANGED OthersP002

P002_Ping ==
  /\ P002Running
  /\ p002.frames < MaxFrames
  /\ \E i \in DOMAIN p002.socks :
       /\ CanRecv(p002.socks[i])
       /\ p002' = p002_onPing([p002 EXCEPT !.frames = @ + 1], i)
  /\ UNCHANGED OthersP002

P002_Pong ==
  /\ P002Running
  /\ p002.frames < MaxFrames
  /\ \E i \in DOMAIN p002.socks :
       /\ CanRecv(p002.socks[i])
       /\ p002' = p002_onPong([p002 EXCEPT !.frames = @ + 1], i)
  /\ UNCHANGED OthersP002

P002_Message ==
  /\ P002Running
  /\ p002.frames < MaxFrames
  /\ \E i \in DOMAIN p002.socks, m \in Frames :
       /\ CanRecv(p002.socks[i])
       /\ p002' = p002_onMessage([p002 EXCEPT !.frames = @ + 1], i, m)
  /\ UNCHANGED OthersP002

P002_Close ==
  /\ P002Running
  /\ \E i \in DOMAIN p002.socks :
       /\ CanClose(p002.socks[i])
       /\ p002' = p002_onClose([p002 EXCEPT !.socks[i] = LibOnClose(@)], i)
  /\ UNCHANGED OthersP002

P002_Error ==
  /\ P002Running
  /\ \E i \in DOMAIN p002.socks :
       /\ CanError(p002.socks[i])
       /\ p002' = p002_onError([p002 EXCEPT !.socks[i] = LibOnError(@)], i)
  /\ UNCHANGED OthersP002

NextP002 ==
  \/ P002_TokenOk
  \/ P002_TokenMissing
  \/ P002_TokenWait
  \/ P002_SubWait
  \/ P002_BackoffWait
  \/ P002_Open
  \/ P002_Ping
  \/ P002_Pong
  \/ P002_Message
  \/ P002_Close
  \/ P002_Error

(***************************************************************************)
(* Program fin: src/server.js lines 251-611 (mainLoop, event log with a    *)
(* count cap and a byte cap, pushes dropped)                               *)
(*   ws, running, reconnectAttempts, logs, logsBytes   module variables    *)
(*   sessionStartTs   the socket whose 'open' set it (NoSock: null)        *)
(*   lastPongTs       TRUE when a time is recorded                         *)
(*   lastDisconnect   set: not null; timed: sessionStartTs was set when    *)
(*                    the 'close' handler computed duration_ms             *)
(*   pc               where mainLoop is suspended:                         *)
(*                      "fetch"        await fetchToken()                  *)
(*                      "token_wait"   the 3 s wait after a missing token  *)
(*                      "await_open"   await 'open' / 'error' / timeout    *)
(*                      "sub_wait"     the 200 ms wait before subscribing  *)
(*                      "await_end"    await 'close' or 'error'            *)
(*                      "backoff_wait" the backoff wait                    *)
(*                      "exc_wait"     the 2 s wait of the catch block     *)
(*   backoff          the delay of the backoff wait in 1/64 ms             *)
(*   exited           process.exit(0) was called                           *)
(*   socks            per socket: acked records that a connect ack was     *)
(*                    received on it                                       *)
(***************************************************************************)
FinSocket == [readyState |-> "CONNECTING", errDue |-> FALSE, closeCalls |-> 0,
              sent |-> <<>>, acked |-> FALSE]

\* server.listen's callback has logged http_listen before the first await
\* of mainLoop settles
FinStart ==
  [ws |-> NoSock, socks |-> <<>>, running |-> TRUE, reconnectAttempts |-> 0,
   sessionStartTs |-> NoSock, lastPongTs |-> FALSE,
   lastDisconnect |-> [set |-> FALSE, timed |-> FALSE],
   logs |-> <<Entry("http_listen")>>, logsBytes |-> 1,
   pc |-> "fetch", backoff |-> 0, exited |-> FALSE, frames |-> 0]

\* Buffer.byteLength(JSON.stringify(o))
fin_approxSizeOfObj(o) == o.size

\* while (logs.length > MAX_LOG_ENTRIES || logsBytes > MAX_LOG_BYTES) shift
RECURSIVE FinTrim(_)
FinTrim(l) ==
  IF Len(l.logs) > MaxLogEntries \/ l.logsBytes > MaxLogBytes
  THEN IF l.logs = <<>>
       \* logs.shift() returns undefined, JSON.stringify(undefined) is
       \* undefined and Buffer.byteLength throws: approxSizeOfObj gives 200
       THEN FinTrim([l EXCEPT !.logsBytes = IF @ - 200 < 0 THEN 0 ELSE @ - 200])
       ELSE LET b == l.logsBytes - fin_approxSizeOfObj(Head(l.logs))
            IN FinTrim([logs |-> Tail(l.logs),
                        logsBytes |-> IF b < 0 THEN 0 ELSE b])
  ELSE l

\* pushLog with "if" for "while": one entry is evicted at most
fin_pushLog_trimOnce(s, entry) ==
  LET ls == Append(s.logs, entry)
      b  == s.logsBytes + fin_approxSizeOfObj(entry)
  IN IF Len(ls) > MaxLogEntries \/ b > MaxLogBytes
     THEN [s EXCEPT !.logs = Tail(ls), !.logsBytes = b - fin_approxSizeOfObj(Head(ls))]
     ELSE [s EXCEPT !.logs = ls, !.logsBytes = b]

\* pushLog whose eviction loop leaves the running byte counter as it was
fin_pushLog_noDebit(s, entry) ==
  LET b == s.logsBytes + fin_approxSizeOfObj(entry)
      l == FinTrim([logs |-> Append(s.logs, entry), logsBytes |-> b])
  IN [s EXCEPT !.logs = l.logs, !.logsBytes = b]

\* pushLog that gives up the entry it was handed when a cap is exceeded
fin_pushLog_dropNewest(s, entry) ==
  LET ls == Append(s.logs, entry)
      b  == s.logsBytes + fin_approxSizeOfObj(entry)
  IN IF Len(ls) > MaxLogEntries \/ b > MaxLogBytes
     THEN s
     ELSE [s EXCEPT !.logs = ls, !.logsBytes = b]

fin_pushLog(s, entry) ==
  LET l == FinTrim([logs |-> Append(s.logs, entry),
                    logsBytes |-> s.logsBytes + fin_approxSizeOfObj(entry)])
  IN [s EXCEPT !.logs = l.logs, !.logsBytes = l.logsBytes]

\* Math.min(30000, 2000 * Math.pow(1.5, n)) in 1/64 ms
FinBackoff(n) ==
  IF n >= 7 THEN 64 * 30000 ELSE (64 * 2000 * Pow(3, n)) \div Pow(2, n)

FinSend(s, i, m) == [s EXCEPT !.socks[i] = LibSend(@, m)]

\* mainLoop after fetchToken() returned a token, up to the await of 'open'
fin_mainLoop_connect(s) ==
  LET s1 == fin_pushLog(fin_pushLog(s, Entry("token_fetch")), Entry("start_connect"))
  IN [s1 EXCEPT !.socks = Append(@, FinSocket),
                !.ws = Len(s.socks) + 1,
                !.pc = "await_open"]

\* mainLoop after fetchToken() returned nothing
fin_mainLoop_noToken(s) ==
  [fin_pushLog(s, Entry("token_fetch")) EXCEPT !.pc = "token_wait"]

\* mainLoop resumed by 'open': send the connect payload, then wait 200 ms
fin_mainLoop_opened(s) ==
  [fin_pushLog(FinSend(s, s.ws, "connect"), Entry("connect_sent"))
     EXCEPT !.pc = "sub_wait"]

\* mainLoop after the 200 ms wait: subscribe, then wait for 'close'/'error'
fin_mainLoop_subscribe(s) ==
  [fin_pushLog(FinSend(s, s.ws, "subscribe100"), Entry("subscribe_sent"))
     EXCEPT !.pc = "await_end"]

\* mainLoop resumed by 'close' or 'error' of the session
fin_mainLoop_ended(s) ==
  LET n == s.reconnectAttempts + 1 IN
  [fin_pushLog([s EXCEPT !.reconnectAttempts = n], Entry("reconnect_scheduled"))
     EXCEPT !.backoff = FinBackoff(n), !.pc = "backoff_wait"]

\* the catch block of mainLoop
fin_mainLoop_catch(s) ==
  [fin_pushLog(s, Entry("main_loop_exception")) EXCEPT !.pc = "exc_wait"]

\* the end of a wait of mainLoop: the loop tests running and starts over
fin_mainLoop_loop(s) == [s EXCEPT !.pc = "fetch", !.backoff = 0]

fin_onOpen(s, i) ==
  LET s1 == fin_pushLog([s EXCEPT !.reconnectAttempts = 0,
                                  !.sessionStartTs = i,
                                  !.lastPongTs = FALSE], Entry("ws_open"))
  IN IF s1.pc = "await_open" /\ s1.ws = i THEN fin_mainLoop_opened(s1) ELSE s1

fin_onMessage(s, i, m) ==
  IF IsEmptyObject(m) THEN
    fin_pushLog([FinSend(s, i, "pong_type3") EXCEPT !.lastPongTs = TRUE],
                Entry("json_pong_sent"))
  ELSE IF m.kind = "object" /\ m.id = 1 /\ m.connect # "absent" THEN
    [fin_pushLog(s, EntrySized("connect_ack", m)) EXCEPT !.socks[i].acked = TRUE]
  ELSE IF m.kind = "object" /\ m.push # "absent" THEN
    s
  ELSE IF m.kind = "object" /\ m.id # 0 THEN
    fin_pushLog(s, Entry("msg_with_id"))
  ELSE IF m.kind = "object" THEN
    fin_pushLog(s, Entry("message_parsed"))
  ELSE
    fin_pushLog(s, Entry("message_nonjson"))

fin_onPing(s, i) ==
  fin_pushLog(FinSend(s, i, "transport_pong"), Entry("transport_ping_recv"))

fin_onPong(s, i) ==
  fin_pushLog([s EXCEPT !.lastPongTs = TRUE], Entry("transport_pong_recv"))

fin_onClose(s, i) ==
  LET s1 == fin_pushLog([s EXCEPT !.lastDisconnect =
                                    [set |-> TRUE, timed |-> s.sessionStartTs # NoSock]],
                        [Entry("ws_close") EXCEPT !.size = 2])
      s2 == [s1 EXCEPT !.sessionStartTs = NoSock]
  IN IF s2.pc = "await_end" /\ s2.ws = i THEN fin_mainLoop_ended(s2) ELSE s2

fin_onError(s, i) ==
  LET s1 == fin_pushLog(s, Entry("ws_error")) IN
  IF s1.ws # i THEN s1
  ELSE IF s1.pc = "await_open" THEN fin_mainLoop_catch(s1)
  ELSE IF s1.pc = "await_end" THEN fin_mainLoop_ended(s1)
  ELSE s1

\* the heartbeat interval; saved: fs.writeFileSync did not throw
fin_heartbeat(s, saved) ==
  fin_pushLog(fin_pushLog(s, Entry("heartbeat")),
              Entry(IF saved THEN "meta_dump_saved" ELSE "meta_dump_err"))

\* process.exit(0): sockets and timers die with the process; the log is
\* kept as it was at that moment
FinExit(s) ==
  [FinStart EXCEPT !.exited = TRUE, !.running = FALSE, !.pc = "done",
                   !.logs = s.logs, !.logsBytes = s.logsBytes]

\* SIGINT / SIGTERM: log, running = false, ws.close(), process.exit(0)
fin_onSignal(s) ==
  LET s1 == [fin_pushLog(s, Entry("shutdown")) EXCEPT !.running = FALSE]
      s2 == IF s1.ws # NoSock THEN [s1 EXCEPT !.socks[s1.ws] = LibClose(@)] ELSE s1
  IN FinExit(s2)

FinRunning == prog = "fin" /\ ~fin.exited

Fin_TokenOk ==
  /\ FinRunning
  /\ fin.pc = "fetch"
  /\ Len(fin.socks) < MaxLoopSockets
  /\ fin' = fin_mainLoop_connect(fin)
  /\ UNCHANGED OthersFin

Fin_TokenMissing ==
  /\ FinRunning
  /\ fin.pc = "fetch"
  /\ fin' = fin_mainLoop_noToken(fin)
  /\ UNCHANGED OthersFin

Fin_TokenWait ==
  /\ FinRunning
  /\ fin.pc = "token_wait"
  /\ fin' = fin_mainLoop_loop(fin)
  /\ UNCHANGED OthersFin

\* the OPEN_TIMEOUT_MS timer of mainLoop rejects the wait for 'open'
Fin_OpenTimeout ==
  /\ FinRunning
  /\ fin.pc = "await_open"
  /\ fin' = fin_mainLoop_catch(fin)
  /\ UNCHANGED OthersFin

Fin_SubWait ==
  /\ FinRunning
  /\ fin.pc = "sub_wait"
  /\ fin' = fin_mainLoop_subscribe(fin)
  /\ UNCHANGED OthersFin

Fin_BackoffWait ==
  /\ FinRunning
  /\ fin.pc = "backoff_wait"
  /\ fin' = fin_mainLoop_loop(fin)
  /\ UNCHANGED OthersFin

Fin_ExcWait ==
  /\ FinRunning
  /\ fin.pc = "exc_wait"
  /\ fin' = fin_mainLoop_loop(fin)
  /\ UNCHANGED OthersFin

Fin_Open ==
  /\ FinRunning
  /\ \E i \in DOMAIN fin.socks :
       /\ CanOpen(fin.socks[i])
       /\ fin' = fin_onOpen([fin EXCEPT !.socks[i].readyState = "OPEN"], i)
  /\ UNCHANGED OthersFin

Fin_Message ==
  /\ FinRunning
  /\ fin.frames < MaxFrames
  /\ \E i \in DOMAIN fin.socks, m \in Frames \cup {FrameConnectAckBig} :
       /\ CanRecv(fin.socks[i])
       /\ fin' = fin_onMessage([fin EXCEPT !.frames = @ + 1], i, m)
  /\ UNCHANGED OthersFin

Fin_Ping ==
  /\ FinRunning
  /\ fin.frames < MaxFrames
  /\ \E i \in DOMAIN fin.socks :
       /\ CanRecv(fin.socks[i])
       /\ fin' = fin_onPing([fin EXCEPT !.frames = @ + 1], i)
  /\ UNCHANGED OthersFin

Fin_Pong ==
  /\ FinRunning
  /\ fin.frames < MaxFrames
  /\ \E i \in DOMAIN fin.socks :
       /\ CanRecv(fin.socks[i])
       /\ fin' = fin_onPong([fin EXCEPT !.frames = @ + 1], i)
  /\ UNCHANGED OthersFin

Fin_Close ==
  /\ FinRunning
  /\ \E i \in DOMAIN fin.socks :
       /\ CanClose(fin.socks[i])
       /\ fin' = fin_onClose([fin EXCEPT !.socks[i] = LibOnClose(@)], i)
  /\ UNCHANGED OthersFin

Fin_Error ==
  /\ FinRunning
  /\ \E i \in DOMAIN fin.socks :
       /\ CanError(fin.socks[i])
       /\ fin' = fin_onError([fin EXCEPT !.socks[i] = LibOnError(@)], i)
  /\ UNCHANGED OthersFin

Fin_Heartbeat ==
  /\ FinRunning
  /\ \E saved \in BOOLEAN : fin' = fin_heartbeat(fin, saved)
  /\ UNCHANGED OthersFin

Fin_Signal ==
  /\ FinRunning
  /\ fin' = fin_onSignal(fin)
  /\ UNCHANGED OthersFin

NextFin ==
  \/ Fin_TokenOk
  \/ Fin_TokenMissing
  \/ Fin_TokenWait
  \/ Fin_OpenTimeout
  \/ Fin_SubWait
  \/ Fin_BackoffWait
  \/ Fin_ExcWait
  \/ Fin_Open
  \/ Fin_Message
  \/ Fin_Ping
  \/ Fin_Pong
  \/ Fin_Close
  \/ Fin_Error
  \/ Fin_Heartbeat
  \/ Fin_Signal

(***************************************************************************)
(* Program p006a: src/unnamed/part_006 lines 1-393 ("Combined": mainLoop,  *)
(* filtered logging with a raw entry per message, event log with a count   *)
(* cap).  LOG_PUSH_FULL is off, the default; SEND_PERIODIC_PONG is either  *)
(* off (the default) or on.  The fields are those of program fin, without  *)
(* logsBytes, and                                                          *)
(*   SEND_PERIODIC_PONG  the configuration constant                        *)
(*   periodicPongTimer   NoSock, or the socket the pending interval sends  *)
(*                       on (the instance of its closure)                  *)
(***************************************************************************)
P006aSocket == [readyState |-> "CONNECTING", errDue |-> FALSE, closeCalls |-> 0,
                sent |-> <<>>, acked |-> FALSE]

\* server.listen's callback has logged http_listen before the first await
\* of mainLoop settles
P006aStart ==
  [ws |-> NoSock, socks |-> <<>>, running |-> TRUE, reconnectAttempts |-> 0,
   sessionStartTs |-> NoSock, lastPongTs |-> FALSE,
   lastDisconnect |-> [set |-> FALSE, timed |-> FALSE],
   logs |-> <<Entry("http_listen")>>,
   SEND_PERIODIC_PONG |-> FALSE, periodicPongTimer |-> NoSock,
   pc |-> "fetch", backoff |-> 0, exited |-> FALSE, frames |-> 0]

\* logs.push(entry); splice the head when longer than MAX_LOG_ENTRIES
p006a_pushLog(s, entry) ==
  LET l == Append(s.logs, entry) IN
  [s EXCEPT !.logs = IF Len(l) > MaxLogEntries
                     THEN SubSeq(l, Len(l) - MaxLogEntries + 1, Len(l))
                     ELSE l]

P006aSend(s, i, m) == [s EXCEPT !.socks[i] = LibSend(@, m)]

\* mainLoop after fetchToken() returned a token, up to the await of 'open'
p006a_mainLoop_connect(s) ==
  LET s1 == p006a_pushLog(p006a_pushLog(s, Entry("token_fetch")), Entry("start_connect"))
  IN [s1 EXCEPT !.socks = Append(@, P006aSocket),
                !.ws = Len(s.socks) + 1,
                !.pc = "await_open"]

\* mainLoop after fetchToken() returned nothing
p006a_mainLoop_noToken(s) ==
  [p006a_pushLog(s, Entry("token_fetch")) EXCEPT !.pc = "token_wait"]

\* mainLoop resumed by 'open': send the connect payload, then wait 200 ms
p006a_mainLoop_opened(s) ==
  [p006a_pushLog(P006aSend(s, s.ws, "connect"), Entry("connect_sent"))
     EXCEPT !.pc = "sub_wait"]

\* mainLoop after the 200 ms wait: subscribe, then wait for 'close'/'error'
p006a_mainLoop_subscribe(s) ==
  [p006a_pushLog(P006aSend(s, s.ws, "subscribe100"), Entry("subscribe_sent"))
     EXCEPT !.pc = "await_end"]

\* mainLoop resumed by 'close' or 'error' of the session
p006a_mainLoop_ended(s) ==
  LET n == s.reconnectAttempts + 1 IN
  [p006a_pushLog([s EXCEPT !.reconnectAttempts = n], Entry("reconnect_backoff"))
     EXCEPT !.backoff = FinBackoff(n), !.pc = "backoff_wait"]

\* the catch block of mainLoop
p006a_mainLoop_catch(s) ==
  [p006a_pushLog(s, Entry("main_loop_exception")) EXCEPT !.pc = "exc_wait"]

\* the end of a wait of mainLoop: the loop tests running and starts over
p006a_mainLoop_loop(s) == [s EXCEPT !.pc = "fetch", !.backoff = 0]

p006a_onOpen(s, i) ==
  LET s1 == p006a_pushLog([s EXCEPT !.reconnectAttempts = 0,
                                  !.sessionStartTs = i,
                                  !.lastPongTs = FALSE], Entry("ws_open"))
  IN IF s1.pc = "await_open" /\ s1.ws = i THEN p006a_mainLoop_opened(s1) ELSE s1

\* the raw entry holds the frame as hex/base64 or text and, when the frame
\* parses, the parsed object
p006a_onMessage(s, i, m) ==
  LET s1 == p006a_pushLog(s, EntryWith("raw_msg", m)) IN
  IF IsEmptyObject(m) THEN
    p006a_pushLog([P006aSend(p006a_pushLog(s1, Entry("server_ping_detected")), i, "pong_type3")
                     EXCEPT !.lastPongTs = TRUE],
                  Entry("json_pong_sent"))
  ELSE IF m.kind = "object" /\ m.connect # "absent" /\ m.id = 1 THEN
    LET s2 == [p006a_pushLog(s1, EntrySized("connect_ack", m))
                 EXCEPT !.socks[i].acked = TRUE]
    IN IF s2.SEND_PERIODIC_PONG
       THEN p006a_pushLog([s2 EXCEPT !.periodicPongTimer = i],
                          Entry("periodic_pong_started"))
       ELSE s2
  ELSE IF m.kind = "object" /\ m.id # 0 THEN
    p006a_pushLog(s1, EntryWith("msg_with_id", m))
  ELSE IF m.kind = "object" /\ m.push # "absent" THEN
    p006a_pushLog(s1, Entry("push_ignored"))
  ELSE IF m.kind = "object" THEN
    p006a_pushLog(s1, EntryWith("message_parsed", m))
  ELSE
    p006a_pushLog(s1, Entry("message_nonjson"))

\* the setInterval callback armed by the connect ack: one binary JSON pong
\* on the instance of its closure
p006a_periodicPong(s) ==
  LET i == s.periodicPongTimer IN
  IF s.socks[i].readyState = "OPEN"
  THEN p006a_pushLog([P006aSend(s, i, "pong_type3") EXCEPT !.lastPongTs = TRUE],
                     Entry("periodic_pong_sent"))
  ELSE p006a_pushLog(s, Entry("periodic_pong_error"))

p006a_onPing(s, i) ==
  p006a_pushLog(P006aSend(p006a_pushLog(s, Entry("transport_ping")), i, "transport_pong"),
                Entry("transport_pong_sent"))

p006a_onPong(s, i) ==
  p006a_pushLog([s EXCEPT !.lastPongTs = TRUE], Entry("transport_pong_recv"))

p006a_onClose(s, i) ==
  LET s1 == p006a_pushLog([s EXCEPT !.lastDisconnect =
                                    [set |-> TRUE, timed |-> s.sessionStartTs # NoSock]],
                        Entry("ws_close"))
      s3 == IF s1.periodicPongTimer # NoSock
            THEN p006a_pushLog([s1 EXCEPT !.periodicPongTimer = NoSock],
                               Entry("periodic_pong_stopped"))
            ELSE s1
      s2 == [s3 EXCEPT !.sessionStartTs = NoSock]
  IN IF s2.pc = "await_end" /\ s2.ws = i THEN p006a_mainLoop_ended(s2) ELSE s2

p006a_onError(s, i) ==
  LET s1 == p006a_pushLog(s, Entry("ws_error")) IN
  IF s1.ws # i THEN s1
  ELSE IF s1.pc = "await_open" THEN p006a_mainLoop_catch(s1)
  ELSE IF s1.pc = "await_end" THEN p006a_mainLoop_ended(s1)
  ELSE s1

\* the heartbeat interval; saved: fs.writeFileSync did not throw
p006a_heartbeat(s, saved) ==
  p006a_pushLog(p006a_pushLog(s, Entry("heartbeat")),
                Entry(IF saved THEN "dump_saved" ELSE "dump_err"))

\* the dump interval
p006a_periodicDump(s, saved) ==
  IF s.logs # <<>>
  THEN p006a_pushLog(s, Entry(IF saved THEN "periodic_dump_saved" ELSE "periodic_dump_err"))
  ELSE s

\* process.exit(0): sockets and timers die with the process; the log is
\* kept as it was at that moment
P006aExit(s) ==
  [P006aStart EXCEPT !.exited = TRUE, !.running = FALSE, !.pc = "done",
                   !.logs = s.logs]

\* SIGINT / SIGTERM: log, running = false, ws.close(), process.exit(0)
p006a_onSignal(s) ==
  LET s1 == [p006a_pushLog(s, Entry("shutdown")) EXCEPT !.running = FALSE]
      s2 == IF s1.ws # NoSock THEN [s1 EXCEPT !.socks[s1.ws] = LibClose(@)] ELSE s1
  IN P006aExit(s2)

P006aRunning == prog = "p006a" /\ ~p006a.exited

P006a_TokenOk ==
  /\ P006aRunning
  /\ p006a.pc = "fetch"
  /\ Len(p006a.socks) < MaxLoopSockets
  /\ p006a' = p006a_mainLoop_connect(p006a)
  /\ UNCHANGED OthersP006a

P006a_TokenMissing ==
  /\ P006aRunning
  /\ p006a.pc = "fetch"
  /\ p006a' = p006a_mainLoop_noToken(p006a)
  /\ UNCHANGED OthersP006a

P006a_TokenWait ==
  /\ P006aRunning
  /\ p006a.pc = "token_wait"
  /\ p006a' = p006a_mainLoop_loop(p006a)
  /\ UNCHANGED OthersP006a

\* the 15 s timer of mainLoop rejects the wait for 'open'
P006a_OpenTimeout ==
  /\ P006aRunning
  /\ p006a.pc = "await_open"
  /\ p006a' = p006a_mainLoop_catch(p006a)
  /\ UNCHANGED OthersP006a

P006a_SubWait ==
  /\ P006aRunning
  /\ p006a.pc = "sub_wait"
  /\ p006a' = p006a_mainLoop_subscribe(p006a)
  /\ UNCHANGED OthersP006a

P006a_BackoffWait ==
  /\ P006aRunning
  /\ p006a.pc = "backoff_wait"
  /\ p006a' = p006a_mainLoop_loop(p006a)
  /\ UNCHANGED OthersP006a

P006a_ExcWait ==
  /\ P006aRunning
  /\ p006a.pc = "exc_wait"
  /\ p006a' = p006a_mainLoop_loop(p006a)
  /\ UNCHANGED OthersP006a

P006a_Open ==
  /\ P006aRunning
  /\ \E i \in DOMAIN p006a.socks :
       /\ CanOpen(p006a.socks[i])
       /\ p006a' = p006a_onOpen([p006a EXCEPT !.socks[i].readyState = "OPEN"], i)
  /\ UNCHANGED OthersP006a

P006a_Message ==
  /\ P006aRunning
  /\ p006a.frames < MaxFrames
  /\ \E i \in DOMAIN p006a.socks, m \in Frames :
       /\ CanRecv(p006a.socks[i])
       /\ p006a' = p006a_onMessage([p006a EXCEPT !.frames = @ + 1], i, m)
  /\ UNCHANGED OthersP006a

P006a_Ping ==
  /\ P006aRunning
  /\ p006a.frames < MaxFrames
  /\ \E i \in DOMAIN p006a.socks :
       /\ CanRecv(p006a.socks[i])
       /\ p006a' = p006a_onPing([p006a EXCEPT !.frames = @ + 1], i)
  /\ UNCHANGED OthersP006a

P006a_Pong ==
  /\ P006aRunning
  /\ p006a.frames < MaxFrames
  /\ \E i \in DOMAIN p006a.socks :
       /\ CanRecv(p006a.socks[i])
       /\ p006a' = p006a_onPong([p006a EXCEPT !.frames = @ + 1], i)
  /\ UNCHANGED OthersP006a

P006a_Close ==
  /\ P006aRunning
  /\ \E i \in DOMAIN p006a.socks :
       /\ CanClose(p006a.socks[i])
       /\ p006a' = p006a_onClose([p006a EXCEPT !.socks[i] = LibOnClose(@)], i)
  /\ UNCHANGED OthersP006a

P006a_Error ==
  /\ P006aRunning
  /\ \E i \in DOMAIN p006a.socks :
       /\ CanError(p006a.socks[i])
       /\ p006a' = p006a_onError([p006a EXCEPT !.socks[i] = LibOnError(@)], i)
  /\ UNCHANGED OthersP006a

P006a_Heartbeat ==
  /\ P006aRunning
  /\ \E saved \in BOOLEAN : p006a' = p006a_heartbeat(p006a, saved)
  /\ UNCHANGED OthersP006a

P006a_PeriodicDump ==
  /\ P006aRunning
  /\ \E saved \in BOOLEAN : p006a' = p006a_periodicDump(p006a, saved)
  /\ UNCHANGED OthersP006a

P006a_PeriodicPong ==
  /\ P006aRunning
  /\ p006a.periodicPongTimer # NoSock
  /\ p006a' = p006a_periodicPong(p006a)
  /\ SentBounded(p006a')
  /\ UNCHANGED OthersP006a

P006a_Signal ==
  /\ P006aRunning
  /\ p006a' = p006a_onSignal(p006a)
  /\ UNCHANGED OthersP006a

NextP006a ==
  \/ P006a_PeriodicPong
  \/ P006a_TokenOk
  \/ P006a_TokenMissing
  \/ P006a_TokenWait
  \/ P006a_OpenTimeout
  \/ P006a_SubWait
  \/ P006a_BackoffWait
  \/ P006a_ExcWait
  \/ P006a_Open
  \/ P006a_Message
  \/ P006a_Ping
  \/ P006a_Pong
  \/ P006a_Close
  \/ P006a_Error
  \/ P006a_Heartbeat
  \/ P006a_PeriodicDump
  \/ P006a_Signal

(***************************************************************************)
(* Program p004: src/unnamed/part_004 ("binary-message responder +         *)
(* transport pong + logging").  Its handlers use the module variable ws,   *)
(* not the socket that emitted the event.                                  *)
(*   clientPingTimer        the setInterval(sendClientPing) is armed       *)
(*   forceReconnectTimer    the 5 min forced-reconnect timer is pending    *)
(*   reconnectBackoffTimer  the 2 s timer of safeCloseAndRestart is        *)
(*                          pending                                        *)
(*   startTimers            pending setTimeout(startWS) whose handles are  *)
(*                          not kept ('close' handler, token retry)        *)
(*   pendingClientPings     size of the map of client pings not yet        *)
(*                          answered                                       *)
(*   pingTimestamp          a server ping was seen and not yet cleared     *)
(*   socks[i].subTimer      the 200 ms subscribe timer of socket i's       *)
(*                          'open' handler is pending                      *)
(***************************************************************************)
P004Socket == [readyState |-> "CONNECTING", errDue |-> FALSE, closeCalls |-> 0,
               sent |-> <<>>, subTimer |-> FALSE]

P004Start ==
  [ws |-> NoSock, socks |-> <<>>, clientPingTimer |-> FALSE,
   forceReconnectTimer |-> FALSE, reconnectBackoffTimer |-> FALSE,
   startTimers |-> 0, fetching |-> 1, pendingClientPings |-> 0,
   pingTimestamp |-> FALSE, crashed |-> FALSE, frames |-> 0]

\* an exception no handler catches ends the process
P004Crash == [P004Start EXCEPT !.crashed = TRUE, !.fetching = 0]

\* ws.send / ws.pong / ws.ping on the module variable ws, inside try/catch
P004WsSend(s, m) == [s EXCEPT !.socks[s.ws] = LibSend(@, m)]

\* sendClientPing: a transport ping with a fresh two-byte payload
p004_sendClientPing(s) ==
  IF s.ws = NoSock \/ s.socks[s.ws].readyState # "OPEN" THEN s
  ELSE [P004WsSend(s, "transport_ping") EXCEPT !.pendingClientPings = @ + 1]

p004_clearTimers(s) ==
  [s EXCEPT !.clientPingTimer = FALSE, !.forceReconnectTimer = FALSE,
            !.reconnectBackoffTimer = FALSE]

p004_safeCloseAndRestart(s) ==
  LET s1 == IF s.ws # NoSock /\ s.socks[s.ws].readyState = "OPEN"
            THEN [s EXCEPT !.socks[s.ws] = LibClose(@)] ELSE s
  IN [p004_clearTimers(s1) EXCEPT !.reconnectBackoffTimer = TRUE]

\* startWS(), up to the await of getToken()
p004_startWS(s) == [s EXCEPT !.fetching = @ + 1]

\* startWS(), after getToken() returned a token
p004_startWS_connect(s) ==
  [s EXCEPT !.fetching = @ - 1,
            !.socks = Append(@, P004Socket),
            !.ws = Len(s.socks) + 1]

\* startWS(), after getToken() returned nothing
p004_startWS_retry(s) ==
  [s EXCEPT !.fetching = @ - 1, !.startTimers = @ + 1]

p004_onOpen(s, i) ==
  LET s1 == P004WsSend([s EXCEPT !.pendingClientPings = 0,
                                 !.socks[i].subTimer = TRUE], "connect")
      s2 == IF ~s1.clientPingTimer
            THEN [p004_sendClientPing(s1) EXCEPT !.clientPingTimer = TRUE]
            ELSE s1
  IN [s2 EXCEPT !.forceReconnectTimer = TRUE]

\* the 200 ms timer of the 'open' handler: one subscribe per channel
p004_subscribeTimer(s, i) ==
  P004WsSend(P004WsSend([s EXCEPT !.socks[i].subTimer = FALSE],
                        "subscribe100"), "subscribe101")

\* the forced-reconnect timer of the 'open' handler
p004_forceReconnect(s) ==
  p004_safeCloseAndRestart([s EXCEPT !.forceReconnectTimer = FALSE])

\* 'ping': ws.pong(data) echoes the payload
p004_onPing(s, i) ==
  P004WsSend([s EXCEPT !.pingTimestamp = TRUE], "transport_pong")

\* 'pong'.  mine: the payload is that of a pending client ping; high: the
\* measured latency exceeds 2000 ms
p004_onPong(s, i, mine, high) ==
  IF mine THEN
    LET s1 == [s EXCEPT !.pendingClientPings = @ - 1]
    IN IF high THEN p004_safeCloseAndRestart(s1) ELSE s1
  ELSE IF s.pingTimestamp THEN
    LET s1 == [s EXCEPT !.pingTimestamp = FALSE]
    IN IF high THEN p004_safeCloseAndRestart(s1) ELSE s1
  ELSE s

\* 'message'.  A binary frame is answered with a transport pong and an echo
\* of its bytes, whatever they are; when ws.pong throws, the catch block
\* reads the undeclared name debug.  A text frame changes nothing, JSON or
\* not.
p004_onMessage(s, i, m, isBinary) ==
  IF ~isBinary THEN s
  ELSE IF s.socks[s.ws].readyState = "CONNECTING" THEN P004Crash
  ELSE P004WsSend(P004WsSend(s, "transport_pong"), "echo")

p004_onClose(s, i) ==
  [p004_clearTimers(s) EXCEPT !.startTimers = @ + 1]

\* the 'error' handler only logs
p004_onError(s, i) == s

P004Running == prog = "p004" /\ ~p004.crashed

P004_TokenOk ==
  /\ P004Running
  /\ p004.fetching > 0
  /\ Len(p004.socks) < MaxLoopSockets
  /\ p004' = p004_startWS_connect(p004)
  /\ UNCHANGED OthersP004

P004_TokenMissing ==
  /\ P004Running
  /\ p004.fetching > 0
  /\ p004.startTimers < MaxLoopSockets
  /\ p004' = p004_startWS_retry(p004)
  /\ UNCHANGED OthersP004

P004_StartTimer ==
  /\ P004Running
  /\ p004.startTimers > 0
  /\ p004' = p004_startWS([p004 EXCEPT !.startTimers = @ - 1])
  /\ UNCHANGED OthersP004

P004_BackoffTimer ==
  /\ P004Running
  /\ p004.reconnectBackoffTimer
  /\ p004' = p004_startWS([p004 EXCEPT !.reconnectBackoffTimer = FALSE])
  /\ UNCHANGED OthersP004

P004_Open ==
  /\ P004Running
  /\ \E i \in DOMAIN p004.socks :
       /\ CanOpen(p004.socks[i])
       /\ p004' = p004_onOpen([p004 EXCEPT !.socks[i].readyState = "OPEN"], i)
  /\ UNCHANGED OthersP004

P004_SubscribeTimer ==
  /\ P004Running
  /\ \E i \in DOMAIN p004.socks :
       /\ p004.socks[i].subTimer
       /\ p004' = p004_subscribeTimer(p004, i)
  /\ SentBounded(p004')
  /\ UNCHANGED OthersP004

P004_ClientPingTimer ==
  /\ P004Running
  /\ p004.clientPingTimer
  /\ p004' = p004_sendClientPing(p004)
  /\ SentBounded(p004')
  /\ UNCHANGED OthersP004

P004_ForceReconnectTimer ==
  /\ P004Running
  /\ p004.forceReconnectTimer
  /\ p004' = p004_forceReconnect(p004)
  /\ UNCHANGED OthersP004

P004_Ping ==
  /\ P004Running
  /\ p004.frames < MaxFrames
  /\ \E i \in DOMAIN p004.socks :
       /\ CanRecv(p004.socks[i])
       /\ p004' = p004_onPing([p004 EXCEPT !.frames = @ + 1], i)
  /\ SentBounded(p004')
  /\ UNCHANGED OthersP004

P004_Pong ==
  /\ P004Running
  /\ p004.frames < MaxFrames
  /\ \E i \in DOMAIN p004.socks, mine \in BOOLEAN, high \in BOOLEAN :
       /\ CanRecv(p004.socks[i])
       /\ mine => p004.pendingClientPings > 0
       /\ p004' = p004_onPong([p004 EXCEPT !.frames = @ + 1], i, mine, high)
  /\ UNCHANGED OthersP004

P004_Message ==
  /\ P004Running
  /\ p004.frames < MaxFrames
  /\ \E i \in DOMAIN p004.socks, m \in Frames, isBinary \in BOOLEAN :
       /\ CanRecv(p004.socks[i])
       /\ p004' = p004_onMessage([p004 EXCEPT !.frames = @ + 1], i, m, isBinary)
  /\ SentBounded(p004')
  /\ UNCHANGED OthersP004

P004_Close ==
  /\ P004Running
  /\ \E i \in DOMAIN p004.socks :
       /\ CanClose(p004.socks[i])
       /\ p004' = p004_onClose([p004 EXCEPT !.socks[i] = LibOnClose(@)], i)
  /\ UNCHANGED OthersP004

P004_Error ==
  /\ P004Running
  /\ \E i \in DOMAIN p004.socks :
       /\ CanError(p004.socks[i])
       /\ p004' = p004_onError([p004 EXCEPT !.socks[i] = LibOnError(@)], i)
  /\ UNCHANGED OthersP004

NextP004 ==
  \/ P004_TokenOk
  \/ P004_TokenMissing
  \/ P004_StartTimer
  \/ P004_BackoffTimer
  \/ P004_Open
  \/ P004_SubscribeTimer
  \/ P004_ClientPingTimer
  \/ P004_ForceReconnectTimer
  \/ P004_Ping
  \/ P004_Pong
  \/ P004_Message
  \/ P004_Close
  \/ P004_Error

(***************************************************************************)
(* Program p006b: src/unnamed/part_006 lines 394-671 (startClient with the *)
(* periodic forced reconnect and the transport-ping watchdog).             *)
(*   ws, stopped, attempt   the module variables                           *)
(*   lastTransportPingTs    a transport ping or pong was seen (the         *)
(*                          variable is no longer 0)                       *)
(*   periodicReconnectTimer the 5 min forced-reconnect timer is pending    *)
(*   backoffTimer           the reconnect timer and its delay in ms        *)
(*   socks[i]               gotConnectAck (closure variable), subTimer     *)
(*                          (the 150 ms subscribe timer), watchdog (the    *)
(*                          30 s timer held in forcedReconnectHandle),     *)
(*                          watchFired (watch() has run on it and armed    *)
(*                          itself again: the socket is open for 30 s or   *)
(*                          more)                                          *)
(*   fetching, retryTimers, exited, signals, frames   as for v470          *)
(* BASE_BACKOFF_MS and MAX_BACKOFF_MS (lines 409-410) and the backoff      *)
(* expression (line 650) are those of v470.                                *)
(***************************************************************************)
P006bSocket == [readyState |-> "CONNECTING", errDue |-> FALSE, closeCalls |-> 0,
                sent |-> <<>>, gotConnectAck |-> FALSE, subTimer |-> FALSE,
                watchdog |-> FALSE, watchFired |-> FALSE]

P006bStart ==
  [ws |-> NoSock, socks |-> <<>>, stopped |-> FALSE, attempt |-> 0,
   lastTransportPingTs |-> FALSE, periodicReconnectTimer |-> FALSE,
   backoffTimer |-> [pending |-> FALSE, delay |-> 0],
   fetching |-> 1, retryTimers |-> 0, exited |-> FALSE,
   signals |-> 0, frames |-> 0]

\* process.exit, or an exception no handler catches: sockets and timers die
\* with the process
P006bExit == [P006bStart EXCEPT !.exited = TRUE, !.stopped = TRUE, !.fetching = 0]

\* ws.send(...) / ws.pong(...) inside try/catch: a throw is swallowed
P006bWsSend(s, m) ==
  IF s.ws = NoSock THEN s ELSE [s EXCEPT !.socks[s.ws] = LibSend(@, m)]

p006b_safeClose(s) ==
  IF s.ws # NoSock /\ s.socks[s.ws].readyState = "OPEN"
  THEN [s EXCEPT !.socks[s.ws] = LibClose(@)] ELSE s

\* startClient(), up to the await of getToken()
p006b_startClient(s) ==
  IF s.stopped THEN s ELSE [s EXCEPT !.fetching = @ + 1]

\* startClient(), after getToken() returned a token
p006b_startClient_connect(s) ==
  [s EXCEPT !.fetching = @ - 1,
            !.socks = Append(@, P006bSocket),
            !.ws = Len(s.socks) + 1]

\* startClient(), after getToken() returned nothing
p006b_startClient_retry(s) ==
  [s EXCEPT !.fetching = @ - 1, !.retryTimers = @ + 1]

\* the 'open' handler after its first statement: ws.pong() in a try,
\* ws.send(connect) outside any try, schedulePeriodicReconnect(), watchdog
p006b_onOpen_rest(s, i) ==
  LET s1 == P006bWsSend(s, "transport_pong")
  IN IF s1.socks[s1.ws].readyState = "CONNECTING" THEN P006bExit
     ELSE [P006bWsSend(s1, "connect") EXCEPT !.periodicReconnectTimer = TRUE,
                                             !.socks[i].watchdog = TRUE]

\* the 'open' handler without its first statement (attempt = 0)
p006b_onOpen_keepAttempt(s, i) == p006b_onOpen_rest(s, i)

p006b_onOpen(s, i) == p006b_onOpen_rest([s EXCEPT !.attempt = 0], i)

\* the callback of schedulePeriodicReconnect
p006b_periodicReconnect(s) ==
  p006b_safeClose([s EXCEPT !.periodicReconnectTimer = FALSE])

\* watch(), the watchdog of socket i's 'open' handler.  old: the last
\* transport ping or pong is more than 60 s ago; a ping never seen counts as
\* old (lastTransportPingTs || 0)
p006b_watch(s, i, old) ==
  IF s.ws # NoSock /\ s.socks[s.ws].readyState = "OPEN"
       /\ (old \/ ~s.lastTransportPingTs)
  THEN p006b_safeClose([s EXCEPT !.socks[i].watchdog = FALSE])
  ELSE [s EXCEPT !.socks[i].watchFired = TRUE]

p006b_onPing(s, i) ==
  P006bWsSend([s EXCEPT !.lastTransportPingTs = TRUE], "transport_pong")

p006b_onPong(s, i) == [s EXCEPT !.lastTransportPingTs = TRUE]

\* 'message': a frame that is not JSON is ignored; a JSON ping is answered
\* with {pong:{}}; the first connect ack is answered with {pong:{}} and
\* arms the subscribe timer; everything else changes nothing.  JSON null
\* parses, and the first test of the loop, m.ping, reads a property of null:
\* the TypeError leaves the handler and nothing catches it
p006b_onMessage(s, i, m) ==
  IF m.kind = "nonjson" THEN s
  ELSE IF m.kind = "null" THEN P006bExit
  ELSE IF m.ping THEN P006bWsSend(s, "pong_json")
  ELSE IF m.id = 1 /\ m.connect # "absent" THEN
    IF s.socks[i].gotConnectAck THEN s
    ELSE [P006bWsSend([s EXCEPT !.socks[i].gotConnectAck = TRUE], "pong_json")
            EXCEPT !.socks[i].subTimer = TRUE]
  ELSE s

p006b_subscribeTimer(s, i) ==
  P006bWsSend(P006bWsSend([s EXCEPT !.socks[i].subTimer = FALSE],
                          "subscribe100"), "subscribe101")

p006b_onClose(s, i) ==
  LET n == s.attempt + 1
  IN [s EXCEPT !.periodicReconnectTimer = FALSE,
               !.attempt = n,
               !.backoffTimer = [pending |-> TRUE, delay |-> v470_backoff(n)]]

p006b_onError(s, i) ==
  IF s.ws = NoSock THEN s ELSE [s EXCEPT !.socks[s.ws] = LibClose(@)]

\* the SIGINT / SIGTERM handler: stopped = true; safeClose(); process.exit(0)
p006b_onSignal(s) == P006bExit

P006bRunning == prog = "p006b" /\ ~p006b.exited

P006b_TokenOk ==
  /\ P006bRunning
  /\ p006b.fetching > 0
  /\ Len(p006b.socks) < MaxSockets
  /\ p006b' = p006b_startClient_connect(p006b)
  /\ UNCHANGED OthersP006b

P006b_TokenMissing ==
  /\ P006bRunning
  /\ p006b.fetching > 0
  /\ p006b' = p006b_startClient_retry(p006b)
  /\ UNCHANGED OthersP006b

P006b_RetryTimer ==
  /\ P006bRunning
  /\ p006b.retryTimers > 0
  /\ p006b' = p006b_startClient([p006b EXCEPT !.retryTimers = @ - 1])
  /\ UNCHANGED OthersP006b

\* the backoff timer (2000 ms at least) was armed by a 'close'; a 150 ms
\* subscribe timer armed before that 'close' expires first
P006b_BackoffTimer ==
  /\ P006bRunning
  /\ p006b.backoffTimer.pending
  /\ \A i \in DOMAIN p006b.socks : ~p006b.socks[i].subTimer
  /\ p006b' = p006b_startClient([p006b EXCEPT !.backoffTimer.pending = FALSE])
  /\ UNCHANGED OthersP006b

P006b_Open ==
  /\ P006bRunning
  /\ \E i \in DOMAIN p006b.socks :
       /\ CanOpen(p006b.socks[i])
       /\ p006b' = p006b_onOpen([p006b EXCEPT !.socks[i].readyState = "OPEN"], i)
  /\ UNCHANGED OthersP006b

P006b_SubscribeTimer ==
  /\ P006bRunning
  /\ \E i \in DOMAIN p006b.socks :
       /\ p006b.socks[i].subTimer
       /\ p006b' = p006b_subscribeTimer(p006b, i)
  /\ SentBounded(p006b')
  /\ UNCHANGED OthersP006b

P006b_PeriodicReconnectTimer ==
  /\ P006bRunning
  /\ p006b.periodicReconnectTimer
  /\ p006b' = p006b_periodicReconnect(p006b)
  /\ UNCHANGED OthersP006b

P006b_Watchdog ==
  /\ P006bRunning
  /\ \E i \in DOMAIN p006b.socks, old \in BOOLEAN :
       /\ p006b.socks[i].watchdog
       /\ p006b' = p006b_watch(p006b, i, old)
  /\ UNCHANGED OthersP006b

P006b_Ping ==
  /\ P006bRunning
  /\ p006b.frames < MaxFrames
  /\ \E i \in DOMAIN p006b.socks :
       /\ CanRecv(p006b.socks[i])
       /\ p006b' = p006b_onPing([p006b EXCEPT !.frames = @ + 1], i)
  /\ SentBounded(p006b')
  /\ UNCHANGED OthersP006b

P006b_Pong ==
  /\ P006bRunning
  /\ p006b.frames < MaxFrames
  /\ \E i \in DOMAIN p006b.socks :
       /\ CanRecv(p006b.socks[i])
       /\ p006b' = p006b_onPong([p006b EXCEPT !.frames = @ + 1], i)
  /\ UNCHANGED OthersP006b

P006b_Message ==
  /\ P006bRunning
  /\ p006b.frames < MaxFrames
  /\ \E i \in DOMAIN p006b.socks, m \in Frames \cup {FrameNull} :
       /\ CanRecv(p006b.socks[i])
       /\ p006b' = p006b_onMessage([p006b EXCEPT !.frames = @ + 1], i, m)
  /\ SentBounded(p006b')
  /\ UNCHANGED OthersP006b

P006b_Close ==
  /\ P006bRunning
  /\ \E i \in DOMAIN p006b.socks :
       /\ CanClose(p006b.socks[i])
       /\ p006b' = p006b_onClose([p006b EXCEPT !.socks[i] = LibOnClose(@)], i)
  /\ UNCHANGED OthersP006b

P006b_Error ==
  /\ P006bRunning
  /\ \E i \in DOMAIN p006b.socks :
       /\ CanError(p006b.socks[i])
       /\ p006b' = p006b_onError([p006b EXCEPT !.socks[i] = LibOnError(@)], i)
  /\ UNCHANGED OthersP006b

P006b_Signal ==
  /\ P006bRunning
  /\ p006b.signals < MaxSignals
  /\ p006b' = p006b_onSignal([p006b EXCEPT !.signals = @ + 1])
  /\ UNCHANGED OthersP006b

NextP006b ==
  \/ P006b_TokenOk
  \/ P006b_TokenMissing
  \/ P006b_RetryTimer
  \/ P006b_BackoffTimer
  \/ P006b_Open
  \/ P006b_SubscribeTimer
  \/ P006b_PeriodicReconnectTimer
  \/ P006b_Watchdog
  \/ P006b_Ping
  \/ P006b_Pong
  \/ P006b_Message
  \/ P006b_Close
  \/ P006b_Error
  \/ P006b_Signal

(***************************************************************************)
(* The application heartbeat timers alone: the delay computations of       *)
(* scheduleNextPong (src/server.js lines 54-64) and of the periodic pong   *)
(* of src/unnamed/part_006 (lines 138-157), for bounded configurations.    *)
(*   variant    "v470" or "p006a"                                          *)
(*   ping       the heartbeat interval the ConnectAck advertises, seconds  *)
(*   intervalMs PONG_INTERVAL_MS / PERIODIC_PONG_MS as configured          *)
(*   jitterMs   PONG_JITTER_MS as configured; 800 in part_006              *)
(*   delay      the delay of the armed timer (0: not armed yet)            *)
(*   fires      fires of the interval timer of part_006 since it was armed *)
(***************************************************************************)
MaxFires == 2

Max(a, b) == IF a >= b THEN a ELSE b

\* r is Math.floor(Math.random() * (2 * PONG_JITTER_MS + 1)), in 0 .. 2 * PONG_JITTER_MS
v470_pongDelay(PONG_INTERVAL_MS, PONG_JITTER_MS, r) ==
  LET jitter == r - PONG_JITTER_MS
  IN Max(1, PONG_INTERVAL_MS + jitter)

\* r is Math.floor(Math.random() * 1600), in 0 .. 1599
p006a_pongInterval(PERIODIC_PONG_MS, r) ==
  LET jitter == r - 800
  IN Max(1000, PERIODIC_PONG_MS + jitter)

HeartbeatStart ==
  [variant |-> "v470", ping |-> 25, intervalMs |-> 22000, jitterMs |-> 500,
   delay |-> 0, fires |-> 0]

\* the configurations explored: the defaults (22000 ms, 500 ms; 800 ms in
\* part_006), an interval equal to the advertised one, a short interval,
\* small jitters
HeartbeatConfigs ==
  {[HeartbeatStart EXCEPT !.ping = p, !.intervalMs = n, !.jitterMs = j] :
     p \in {22, 25}, n \in {22000, 25000}, j \in {0, 1, 500}}
  \cup
  {[HeartbeatStart EXCEPT !.variant = "p006a", !.ping = p, !.intervalMs = n,
                          !.jitterMs = 800] :
     p \in {22, 25}, n \in {100, 22000, 25000}}

\* scheduleNextPong(): at the connect ack and again after every fire
Heartbeat_ScheduleNextPong ==
  /\ prog = "hb" /\ hb.variant = "v470"
  /\ \E r \in 0 .. 2 * hb.jitterMs :
       hb' = [hb EXCEPT !.delay = v470_pongDelay(hb.intervalMs, hb.jitterMs, r)]
  /\ UNCHANGED OthersHeartbeat

\* the connect ack of part_006 with SEND_PERIODIC_PONG: setInterval(..., interval)
Heartbeat_StartPeriodicPong ==
  /\ prog = "hb" /\ hb.variant = "p006a"
  /\ hb.delay = 0
  /\ \E r \in 0 .. 1599 :
       hb' = [hb EXCEPT !.delay = p006a_pongInterval(hb.intervalMs, r)]
  /\ UNCHANGED OthersHeartbeat

\* a fire of the interval timer: the next one comes after the same interval
Heartbeat_PeriodicPongFire ==
  /\ prog = "hb" /\ hb.variant = "p006a"
  /\ hb.delay > 0
  /\ hb.fires < MaxFires
  /\ hb' = [hb EXCEPT !.fires = @ + 1]
  /\ UNCHANGED OthersHeartbeat

NextHeartbeat ==
  \/ Heartbeat_ScheduleNextPong
  \/ Heartbeat_StartPeriodicPong
  \/ Heartbeat_PeriodicPongFire

(***************************************************************************)
(* Program p006c: src/unnamed/part_006 lines 769-957 (connectWs: pong only *)
(* after ping, session logger).                                            *)
(*   ws, logs, sessionStartTs, lastPongTs   the module variables (the two  *)
(*                          timestamps: set or not)                        *)
(*   pongTimer              the "no ping" timer (PONG_WAIT_MS + 5000) is   *)
(*                          pending                                        *)
(*   sessionActiveLogger    the 5 min logging interval is armed            *)
(*   startTimers            pending setTimeout(connectWs, ...) (token      *)
(*                          retry, reconnect after 'close')                *)
(*   socks[i].subTimer      the 250 ms subscribe timer of socket i         *)
(* MAX_LOG is MaxLogEntries here.                                          *)
(***************************************************************************)
\* the payloads a transport ping may carry
Payloads == {"", "ab"}

\* a transport pong frame with the given payload
TransportPong(data) == "transport_pong(" \o data \o ")"

P006cSocket == [readyState |-> "CONNECTING", errDue |-> FALSE, closeCalls |-> 0,
                sent |-> <<>>, subTimer |-> FALSE]

P006cStart ==
  [ws |-> NoSock, socks |-> <<>>, logs |-> <<>>, sessionStartTs |-> FALSE,
   lastPongTs |-> FALSE, pongTimer |-> FALSE, sessionActiveLogger |-> FALSE,
   fetching |-> 1, startTimers |-> 0, crashed |-> FALSE, frames |-> 0]

\* an exception no handler catches ends the process
P006cCrash == [P006cStart EXCEPT !.crashed = TRUE, !.fetching = 0]

p006c_addLog(s, event) ==
  LET pushed == Append(s.logs, event)
  IN [s EXCEPT !.logs = IF Len(pushed) > MaxLogEntries THEN Tail(pushed) ELSE pushed]

\* ws.send(...) outside any try/catch, on the module variable ws
p006c_send(s, m) ==
  IF s.socks[s.ws].readyState = "CONNECTING" THEN P006cCrash
  ELSE [s EXCEPT !.socks[s.ws] = LibSend(@, m)]

\* connectWs(), up to the await of getToken()
p006c_connectWs(s) == [s EXCEPT !.fetching = @ + 1]

\* connectWs(), after getToken() returned a token; startHeartbeat()
p006c_connectWs_connect(s) ==
  [p006c_addLog(s, "start_connect")
     EXCEPT !.fetching = @ - 1,
            !.socks = Append(@, P006cSocket),
            !.ws = Len(s.socks) + 1,
            !.sessionActiveLogger = TRUE]

\* connectWs(), after getToken() returned nothing
p006c_connectWs_retry(s) ==
  [p006c_addLog(s, "token_missing")
     EXCEPT !.fetching = @ - 1, !.startTimers = @ + 1]

p006c_onOpen(s, i) ==
  LET s1 == p006c_addLog([s EXCEPT !.sessionStartTs = TRUE, !.lastPongTs = TRUE],
                         "ws_open")
      s2 == p006c_send(s1, "connect")
  IN IF s2.crashed THEN s2 ELSE [s2 EXCEPT !.socks[i].subTimer = TRUE]

\* the 250 ms timer of the 'open' handler
p006c_subscribeTimer(s, i) ==
  LET s1 == p006c_send([s EXCEPT !.socks[i].subTimer = FALSE], "subscribe100")
  IN IF s1.crashed THEN s1 ELSE p006c_addLog(s1, "subscribe_sent")

\* 'message': msg.connect.ping === 25 is the connect ack; msg.publ is a
\* field no frame of the server carries; a frame that does not parse is
\* logged as msg_bin
p006c_onMessage(s, i, m) ==
  IF m.kind = "nonjson" THEN p006c_addLog(s, "msg_bin")
  ELSE IF m.connect # "absent" THEN p006c_addLog(s, "connect_ack")
  ELSE p006c_addLog(s, "msg")

\* 'ping': the handler takes no argument and calls ws.pong() without one
p006c_onPing(s, i, data) ==
  LET s1 == p006c_addLog(s, "ping_recv")
      s2 == IF s1.socks[s1.ws].readyState = "CONNECTING"
            THEN p006c_addLog(s1, "pong_err")
            ELSE p006c_addLog(
                   [s1 EXCEPT !.socks[s1.ws] = LibSend(@, TransportPong("")),
                              !.lastPongTs = TRUE], "pong_sent")
  IN [s2 EXCEPT !.pongTimer = TRUE]

\* the callback of pongTimer: ws.close()
p006c_pongTimeout(s) ==
  [s EXCEPT !.pongTimer = FALSE, !.socks[s.ws] = LibClose(@)]

\* the callback of sessionActiveLogger
p006c_heartbeat(s) ==
  IF ~s.sessionStartTs THEN s ELSE p006c_addLog(s, "heartbeat")

p006c_resetHeartbeat(s) ==
  [s EXCEPT !.sessionStartTs = FALSE, !.sessionActiveLogger = FALSE,
            !.pongTimer = FALSE]

p006c_onClose(s, i) ==
  [p006c_resetHeartbeat(p006c_addLog(s, "ws_close")) EXCEPT !.startTimers = @ + 1]

p006c_onError(s, i) == p006c_addLog(s, "ws_error")

P006cRunning == prog = "p006c" /\ ~p006c.crashed

P006c_TokenOk ==
  /\ P006cRunning
  /\ p006c.fetching > 0
  /\ Len(p006c.socks) < MaxLoopSockets
  /\ p006c' = p006c_connectWs_connect(p006c)
  /\ UNCHANGED OthersP006c

P006c_TokenMissing ==
  /\ P006cRunning
  /\ p006c.fetching > 0
  /\ p006c' = p006c_connectWs_retry(p006c)
  /\ UNCHANGED OthersP006c

\* a start timer (2000 ms at least) was armed after the 'open' that armed a
\* 250 ms subscribe timer, which expires first
P006c_StartTimer ==
  /\ P006cRunning
  /\ p006c.startTimers > 0
  /\ \A i \in DOMAIN p006c.socks : ~p006c.socks[i].subTimer
  /\ p006c' = p006c_connectWs([p006c EXCEPT !.startTimers = @ - 1])
  /\ UNCHANGED OthersP006c

P006c_Open ==
  /\ P006cRunning
  /\ \E i \in DOMAIN p006c.socks :
       /\ CanOpen(p006c.socks[i])
       /\ p006c' = p006c_onOpen([p006c EXCEPT !.socks[i].readyState = "OPEN"], i)
  /\ UNCHANGED OthersP006c

P006c_SubscribeTimer ==
  /\ P006cRunning
  /\ \E i \in DOMAIN p006c.socks :
       /\ p006c.socks[i].subTimer
       /\ p006c' = p006c_subscribeTimer(p006c, i)
  /\ UNCHANGED OthersP006c

P006c_Message ==
  /\ P006cRunning
  /\ p006c.frames < MaxFrames
  /\ \E i \in DOMAIN p006c.socks, m \in Frames :
       /\ CanRecv(p006c.socks[i])
       /\ p006c' = p006c_onMessage([p006c EXCEPT !.frames = @ + 1], i, m)
  /\ UNCHANGED OthersP006c

P006c_Ping ==
  /\ P006cRunning
  /\ p006c.frames < MaxFrames
  /\ \E i \in DOMAIN p006c.socks, data \in Payloads :
       /\ CanRecv(p006c.socks[i])
       /\ p006c' = p006c_onPing([p006c EXCEPT !.frames = @ + 1], i, data)
  /\ UNCHANGED OthersP006c

P006c_PongTimer ==
  /\ P006cRunning
  /\ p006c.pongTimer
  /\ p006c' = p006c_pongTimeout(p006c)
  /\ UNCHANGED OthersP006c

P006c_HeartbeatTimer ==
  /\ P006cRunning
  /\ p006c.sessionActiveLogger
  /\ p006c' = p006c_heartbeat(p006c)
  /\ UNCHANGED OthersP006c

P006c_Close ==
  /\ P006cRunning
  /\ \E i \in DOMAIN p006c.socks :
       /\ CanClose(p006c.socks[i])
       /\ p006c' = p006c_onClose([p006c EXCEPT !.socks[i] = LibOnClose(@)], i)
  /\ UNCHANGED OthersP006c

P006c_Error ==
  /\ P006cRunning
  /\ \E i \in DOMAIN p006c.socks :
       /\ CanError(p006c.socks[i])
       /\ p006c' = p006c_onError([p006c EXCEPT !.socks[i] = LibOnError(@)], i)
  /\ UNCHANGED OthersP006c

NextP006c ==
  \/ P006c_TokenOk
  \/ P006c_TokenMissing
  \/ P006c_StartTimer
  \/ P006c_Open
  \/ P006c_SubscribeTimer
  \/ P006c_Message
  \/ P006c_Ping
  \/ P006c_PongTimer
  \/ P006c_HeartbeatTimer
  \/ P006c_Close
  \/ P006c_Error

(***************************************************************************)
(* The event logs alone: pushLog of each program applied to any sequence   *)
(* of entries, whatever call site they come from.  An entry may be larger  *)
(* than the whole byte cap.                                                *)
(***************************************************************************)
LogEntries ==
  {[type |-> ty, body |-> "none", size |-> z] :
     ty \in {"ws_open", "ws_close", "connect_ack", "heartbeat"},
     z \in 1..(MaxLogBytes + 1)}

PushLog_Insert ==
  /\ prog = "pushLog"
  /\ \E entry \in LogEntries :
       /\ fin' = fin_pushLog(fin, entry)
       /\ p006a' = p006a_pushLog(p006a, entry)
       /\ p002' = p002_pushLog(p002, entry)
       /\ p006c' = p006c_addLog(p006c, entry.type)
  /\ UNCHANGED <<prog, p000, v470, p004, p006b, hb>>

NextPushLog == PushLog_Insert

(***************************************************************************)
(* Specifications                                                          *)
(***************************************************************************)
Programs == {"p000", "v470", "p002", "fin", "p006a", "p004", "p006b", "hb", "p006c", "pushLog"}

Init ==
  /\ prog \in Programs
  /\ p000 = P000Start
  /\ v470 = V470Start
  /\ p002 = P002Start
  /\ fin = FinStart
  /\ p006a \in {[P006aStart EXCEPT !.SEND_PERIODIC_PONG = b] :
                  b \in IF prog = "p006a" THEN BOOLEAN ELSE {FALSE}}
  /\ p004 = P004Start
  /\ p006b = P006bStart
  /\ hb \in IF prog = "hb" THEN HeartbeatConfigs ELSE {HeartbeatStart}
  /\ p006c = P006cStart

Next ==
  \/ NextP000
  \/ NextV470
  \/ NextP002
  \/ NextFin
  \/ NextP006a
  \/ NextP004
  \/ NextP006b
  \/ NextHeartbeat
  \/ NextP006c
  \/ NextPushLog

Spec == Init /\ [][Next]_vars

InitP000 == Init /\ prog = "p000"
SpecP000 == InitP000 /\ [][NextP000]_vars

InitV470 == Init /\ prog = "v470"
SpecV470 == InitV470 /\ [][NextV470]_vars

\* the pong timer and the 500 ms exit timer fire when they are due
FairV470 == WF_vars(V470_PongTimer) /\ WF_vars(V470_ExitTimer)
FairSpecV470 == SpecV470 /\ FairV470

InitP002 == Init /\ prog = "p002"
SpecP002 == InitP002 /\ [][NextP002]_vars

\* the library emits 'close' on a socket that is closing
P002_CloseDue ==
  /\ P002_Close
  /\ \E i \in DOMAIN p002.socks :
       p002.socks[i].readyState = "CLOSING" /\ p002'.socks[i].readyState = "CLOSED"

\* the timers of the event loop fire, a pending token fetch settles, a
\* closing socket closes; the server owes nothing
FairP002 ==
  /\ WF_vars(P002_TokenWait) /\ WF_vars(P002_SubWait) /\ WF_vars(P002_BackoffWait)
  /\ WF_vars(P002_TokenOk \/ P002_TokenMissing)
  /\ WF_vars(P002_CloseDue)
FairSpecP002 == SpecP002 /\ FairP002

InitFin == Init /\ prog = "fin"
SpecFin == InitFin /\ [][NextFin]_vars

\* the library emits 'close' on a socket that is closing
Fin_CloseDue ==
  /\ Fin_Close
  /\ \E i \in DOMAIN fin.socks :
       fin.socks[i].readyState = "CLOSING" /\ fin'.socks[i].readyState = "CLOSED"

\* the timers of the event loop fire, a pending token fetch settles, a
\* closing socket closes; the server owes nothing
FairFin ==
  /\ WF_vars(Fin_TokenWait) /\ WF_vars(Fin_SubWait) /\ WF_vars(Fin_BackoffWait)
  /\ WF_vars(Fin_ExcWait) /\ WF_vars(Fin_Heartbeat)
  /\ WF_vars(Fin_TokenOk \/ Fin_TokenMissing)
  /\ WF_vars(Fin_CloseDue)
FairSpecFin == SpecFin /\ FairFin

InitP006a == Init /\ prog = "p006a"
SpecP006a == InitP006a /\ [][NextP006a]_vars

InitP004 == Init /\ prog = "p004"
SpecP004 == InitP004 /\ [][NextP004]_vars

InitP006b == Init /\ prog = "p006b"
SpecP006b == InitP006b /\ [][NextP006b]_vars

InitHeartbeat == Init /\ prog = "hb"
SpecHeartbeat == InitHeartbeat /\ [][NextHeartbeat]_vars

InitP006c == Init /\ prog = "p006c"
SpecP006c == InitP006c /\ [][NextP006c]_vars

\* the library emits 'close' on a socket that is closing
P006c_CloseDue ==
  /\ P006c_Close
  /\ \E i \in DOMAIN p006c.socks :
       p006c.socks[i].readyState = "CLOSING" /\ p006c'.socks[i].readyState = "CLOSED"

\* the timers of the event loop fire, a pending token fetch settles, a
\* closing socket closes; the server owes nothing
FairP006c ==
  /\ WF_vars(P006c_PongTimer) /\ WF_vars(P006c_SubscribeTimer)
  /\ WF_vars(P006c_StartTimer) /\ WF_vars(P006c_HeartbeatTimer)
  /\ WF_vars(P006c_TokenOk \/ P006c_TokenMissing)
  /\ WF_vars(P006c_CloseDue)
FairSpecP006c == SpecP006c /\ FairP006c

InitPushLog == Init /\ prog = "pushLog"
SpecPushLog == InitPushLog /\ [][NextPushLog]_vars

(***************************************************************************)
(* Claims                                                                  *)
(***************************************************************************)
\* C1: at most one transport handle (WebSocket that is connecting or open)
\* exists at any time, whatever the interleaving of open, error, close and
\* timer events.
C1_AtMostOneLiveTransport ==
  Cardinality(LiveSockets(p000)) <= 1

\* socket i of program state t is one that s saw connecting and t sees open
Opened(s, t, i) ==
  /\ i \in DOMAIN s.socks /\ i \in DOMAIN t.socks
  /\ s.socks[i].readyState = "CONNECTING" /\ t.socks[i].readyState = "OPEN"

\* socket i emitted 'close' between s and t
Closed(s, t, i) ==
  /\ i \in DOMAIN s.socks /\ i \in DOMAIN t.socks
  /\ s.socks[i].readyState # "CLOSED" /\ t.socks[i].readyState = "CLOSED"

\* socket i received its first connect ack between s and t
Acked(s, t, i) ==
  /\ i \in DOMAIN s.socks /\ i \in DOMAIN t.socks
  /\ ~s.socks[i].gotConnectAck /\ t.socks[i].gotConnectAck

\* number of messages m in the sequence q
RECURSIVE Count(_, _)
Count(q, m) ==
  IF q = <<>> THEN 0
  ELSE (IF Head(q) = m THEN 1 ELSE 0) + Count(Tail(q), m)

\* C3: once stop() has been signalled and no transport is connecting or
\* open, no transport is opened any more, no handshake is sent and no
\* reconnect or credential retry is started.
C3_NothingRestartsAfterStop ==
  [][(v470.stopped /\ LiveSockets(v470) = {}) =>
       /\ Len(v470'.socks) <= Len(v470.socks)
       /\ LiveSockets(v470') = {}
       /\ \A i \in DOMAIN v470'.socks :
            Count(v470'.socks[i].sent, "connect") <= Count(v470.socks[i].sent, "connect")
       /\ v470'.backoffTimer.pending => v470.backoffTimer.pending
       /\ v470'.retryTimers <= v470.retryTimers
       /\ v470'.fetching <= v470.fetching]_vars

\* C4: signalling stop() a second time changes nothing: the state after two
\* signals is the state after one (but for the second exit timer), every
\* transport has been closed at most once, and the signal arms no reconnect
\* timer, no credential retry and no new start.
C4_StopIdempotent ==
  (prog = "v470" /\ ~v470.exited) =>
    LET once  == v470_onSignal(v470)
        twice == v470_onSignal(once)
    IN /\ [twice EXCEPT !.exitTimers = 0] = [once EXCEPT !.exitTimers = 0]
       /\ \A i \in DOMAIN twice.socks : twice.socks[i].closeCalls <= 1
       /\ twice.backoffTimer = v470.backoffTimer
       /\ twice.retryTimers = v470.retryTimers
       /\ twice.fetching = v470.fetching

\* two stop signals were delivered and the first closed the open transport
C4_Witness ==
  /\ prog = "v470" /\ v470.signals = 2 /\ v470.stopped /\ ~v470.exited
  /\ \E i \in DOMAIN v470.socks :
       v470.socks[i].closeCalls = 1 /\ v470.socks[i].readyState = "CLOSING"

C2_BackoffResetsAfterSteady ==
  [][(p002'.pc = "backoff_wait" /\ p002.pc # "backoff_wait" /\ p002'.ended # NoSock)
       => /\ p002'.backoff <= 64 * P002_BACKOFF_MAX
          /\ p002'.backoff >= p002.backoff
                \/ p002'.socks[p002'.ended].acked
          /\ p002'.socks[p002'.ended].acked
                => p002'.backoff = 64 * P002_BACKOFF_START]_vars

\* C8: once a socket has emitted 'error', in whatever state the session was,
\* the program eventually begins another connection attempt (mainLoop is
\* back at the token fetch, or a later socket exists).
C8_ErrorLeadsToReconnect ==
  \A i \in 1..MaxLoopSockets :
    (i \in DOMAIN p002.socks /\ p002.socks[i].errored)
      ~> (p002.pc = "fetch" \/ Len(p002.socks) > i)

\* C5: with push suppression on (the default: LOG_PUSH_FULL off), no entry
\* of the event log, of whatever kind, carries the publication of a push.
C5_NoPushPayloadInLog ==
  \A k \in DOMAIN p006a.logs : p006a.logs[k].body # "payload"

\* the sizes of the entries of a log, added up
RECURSIVE SumSizes(_)
SumSizes(q) == IF q = <<>> THEN 0 ELSE Head(q).size + SumSizes(Tail(q))

\* C6: after every insertion the log of server.js holds at most
\* MAX_LOG_ENTRIES entries and at most MAX_LOG_BYTES bytes (by its own
\* account and by the sizes of the entries it holds), and the logs of
\* part_006 and part_002, which have a count cap only, hold at most
\* MAX_LOG_ENTRIES entries.
C6_LogCapsHold ==
  /\ Len(fin.logs) <= MaxLogEntries
  /\ fin.logsBytes <= MaxLogBytes
  /\ SumSizes(fin.logs) <= MaxLogBytes
  /\ Len(p006a.logs) <= MaxLogEntries
  /\ Len(p002.circularLogs) <= MaxLogEntries

\* the count cap evicted the first entry of the count-capped log, and the
\* byte cap evicted entries the count cap would have kept, leaving some
C6_Witness ==
  /\ prog = "pushLog"
  /\ Len(p006a.logs) = MaxLogEntries /\ p006a.logs[1].type # "http_listen"
  /\ fin.logs # <<>> /\ Len(fin.logs) < Len(p006a.logs)

\* C7: no timer armed by a session is still pending once that session's
\* socket has closed: neither the forced-reconnect timer nor the subscribe
\* timer of the 'open' handler.
C7_SessionTimersCancelledOnClose ==
  /\ p000.reconnectTimer.pending =>
       p000.socks[p000.reconnectTimer.owner].readyState # "CLOSED"
  /\ \A i \in DOMAIN p000.socks :
       p000.socks[i].subTimer => p000.socks[i].readyState # "CLOSED"

\* socket i is open, the connect request was sent on it and no connect ack
\* has been received
AwaitingAck(s, i) ==
  /\ i \in DOMAIN s.socks
  /\ s.socks[i].readyState = "OPEN"
  /\ Count(s.socks[i].sent, "connect") > 0
  /\ ~s.socks[i].acked

\* C9: a session that has sent its connect request does not wait for the
\* ConnectAck for ever: the ack arrives, or the client ends the attempt (the
\* socket leaves the open state).
C9_HandshakeAckTimesOut ==
  \A i \in 1..MaxLoopSockets : AwaitingAck(fin, i) ~> ~AwaitingAck(fin, i)

\* C11: consecutive failed sessions with no connect ack in between (the
\* socket failed before it opened, or opened and closed without an ack) get
\* strictly growing reconnect delays, none above the maximum.  Stated on the
\* 'close' handler of server.js v4.7.0, which schedules every reconnect: the
\* delay it arms is greater than the delay armed for the failure before.
C11_FailuresGrowTheDelay ==
  [][(/\ ~v470'.exited
      /\ v470'.attempt = v470.attempt + 1
      /\ v470.backoffTimer.delay > 0
      /\ \A i \in DOMAIN v470'.socks : ~v470'.socks[i].gotConnectAck)
       => /\ v470'.backoffTimer.delay > v470.backoffTimer.delay
          /\ v470'.backoffTimer.delay <= MAX_BACKOFF_MS]_vars

\* socket i of server.js v4.7.0 is open, its connect ack was received and the
\* 120 ms subscribe timer the ack started has fired
V470Steady(s, i) ==
  /\ s.socks[i].readyState = "OPEN"
  /\ s.socks[i].gotConnectAck
  /\ ~s.socks[i].subTimer

\* C12: the step that receives the connect ack {id: 1, connect: {client}} of
\* an open socket records the client id, starts the subscribe timer, arms the
\* pong timer and finds attempt at 0; and a session that has passed through
\* the subscribe timer has sent exactly one connect and exactly one subscribe
\* request per channel (ids 100 and 101), however many acks arrived.
C12_AckSubscribesOnce ==
  /\ [][\A i \in DOMAIN v470.socks :
          (Acked(v470, v470', i) /\ ~v470'.exited) =>
             /\ v470'.lastConnectClientId = "client"
             /\ v470'.socks[i].subTimer
             /\ v470'.pongTimer.pending
             /\ v470'.attempt = 0]_vars
  /\ [](\A i \in DOMAIN v470.socks :
          V470Steady(v470, i) =>
             /\ Count(v470.socks[i].sent, "connect") = 1
             /\ Count(v470.socks[i].sent, "subscribe100") = 1
             /\ Count(v470.socks[i].sent, "subscribe101") = 1)

\* a session in steady state after two connect acks: subscribed once, the
\* pong timer armed, attempt 0
C12_Witness ==
  /\ prog = "v470" /\ v470.frames = 2 /\ ~v470.exited
  /\ \E i \in DOMAIN v470.socks :
       /\ V470Steady(v470, i)
       /\ Count(v470.socks[i].sent, "subscribe100") = 1
       /\ v470.lastConnectClientId = "client"
       /\ v470.pongTimer.pending
       /\ v470.attempt = 0

\* C13: in steady state an inbound frame that parses to the empty object {}
\* makes the client send exactly one application heartbeat acknowledgement
\* (the binary JSON {"type":3}) on the socket that received it.  Stated on
\* the 'message' handler of server.js v4.7.0, applied to {} in every steady
\* state.
C13_EmptyObjectAckedOnce ==
  \A i \in DOMAIN v470.socks :
    (prog = "v470" /\ ~v470.exited /\ V470Steady(v470, i)) =>
       Count(v470_onMessage(v470, i, FrameEmpty).socks[i].sent, "pong_type3")
         = Count(v470.socks[i].sent, "pong_type3") + 1

\* C14: a fire of the periodic pong timer and an inbound {} that fall into
\* the same turn of the event loop put one acknowledgement on the socket, not
\* two.  Stated on part_006 with SEND_PERIODIC_PONG on: in every state where
\* the interval is pending on an open socket, the 'message' handler applied
\* to {} followed by the interval callback adds one {"type":3}.
C14_NoDoubleAck ==
  (prog = "p006a" /\ ~p006a.exited /\ p006a.periodicPongTimer # NoSock) =>
    LET i == p006a.periodicPongTimer
        t == p006a_periodicPong(p006a_onMessage(p006a, i, FrameEmpty))
    IN p006a.socks[i].readyState = "OPEN" =>
         Count(t.socks[i].sent, "pong_type3")
           = Count(p006a.socks[i].sent, "pong_type3") + 1

\* C15: a frame that does not parse as JSON, text or binary, arriving on the
\* open transport sends nothing, closes nothing, changes no timer and no
\* counter and raises no exception: the handler leaves the state as it was.
C15_NonJsonChangesNothing ==
  \A i \in DOMAIN p004.socks, isBinary \in BOOLEAN :
    (prog = "p004" /\ ~p004.crashed /\ p004.ws = i
       /\ p004.socks[i].readyState = "OPEN")
      => p004_onMessage(p004, i, FrameNonJson, isBinary) = p004

C17_DelayWithinJitterWindow ==
  (prog = "hb" /\ hb.delay > 0) =>
     /\ hb.delay >= hb.ping * 1000 - hb.jitterMs
     /\ hb.delay <= hb.ping * 1000 + hb.jitterMs

\* C18: a transport ping received on the open transport is answered at once
\* with one transport pong on that transport whose payload is the payload of
\* the ping, byte for byte.
C18_PongEchoesPayload ==
  \A i \in DOMAIN p006c.socks, data \in Payloads :
    (prog = "p006c" /\ ~p006c.crashed /\ p006c.ws = i
       /\ p006c.socks[i].readyState = "OPEN")
      => p006c_onPing(p006c, i, data).socks[i].sent
           = Append(p006c.socks[i].sent, TransportPong(data))

\* C19: the client never sends a transport ping: on no socket, in no
\* reachable state, is a ping frame among what the client has sent.
C19_NoTransportPingSent ==
  prog = "p004" =>
    \A i \in DOMAIN p004.socks : Count(p004.socks[i].sent, "transport_ping") = 0

\* C20: when the token fetch returns nothing, nothing else happens than the
\* fixed 3 s wait: when that wait is over the program fetches the token
\* again, with no socket opened and the reconnect backoff as it was; as long
\* as no socket was ever opened the backoff is the one it started with.
C20_TokenAbsenceKeepsBackoff ==
  /\ [][(prog = "p002" /\ p002.pc = "token_wait")
          => /\ p002'.pc = "fetch"
             /\ p002'.backoff = p002.backoff
             /\ p002'.socks = p002.socks]_vars
  /\ []((prog = "p002" /\ p002.socks = <<>>)
          => p002.backoff = 64 * P002_BACKOFF_START)

\* C21: a parsed object is dispatched by the first matching rule of the
\* order Heartbeat, ConnectAck, SubscribeAck, Push, Unrecognized: an object
\* that carries a subscribe-range id (100) and a push field is handled as a
\* SubscribeAck (logged as msg_with_id, as part_006 does), not as a Push.
C21_SubscribeAckBeforePush ==
  LET m == [Obj EXCEPT !.id = 100, !.push = "csgorun:crash"] IN
  \A i \in DOMAIN fin.socks :
    (prog = "fin" /\ ~fin.exited /\ fin.socks[i].readyState = "OPEN")
      => fin_onMessage(fin, i, m) = fin_pushLog(fin, Entry("msg_with_id"))

\* C22: while the session has no open transport after a 'close', nothing of
\* the closed session remains: the recorded client id is absent again.
C22_ClientIdClearedOnClose ==
  (/\ prog = "v470" /\ ~v470.exited
   /\ v470.ws # NoSock
   /\ v470.socks[v470.ws].readyState = "CLOSED")
    => v470.lastConnectClientId = "null"

\* C23: on no transport is a subscribe request sent before the ConnectAck
\* of that transport has been received.
C23_NoSubscribeBeforeAck ==
  prog = "fin" =>
    \A i \in DOMAIN fin.socks :
      Count(fin.socks[i].sent, "subscribe100") > 0 => fin.socks[i].acked

\* C24: on each transport exactly one connect request is sent, it is sent
\* when the transport opens, and it is the first message sent on it.
C24_OneHandshakeFirst ==
  prog = "fin" =>
    \A i \in DOMAIN fin.socks :
      LET sent == fin.socks[i].sent IN
      /\ sent # <<>> => (sent[1] = "connect" /\ Count(sent, "connect") = 1)
      /\ fin.socks[i].readyState = "OPEN" => sent # <<>>

\* C25: a ConnectAck received on a transport whose ConnectAck was already
\* received is ignored: it sends nothing and it starts no heartbeat timer
\* (the handler records none as started).
C25_SecondAckIgnored ==
  \A i \in DOMAIN p006a.socks :
    (/\ prog = "p006a" /\ ~p006a.exited
     /\ p006a.socks[i].readyState = "OPEN" /\ p006a.socks[i].acked)
      => LET t == p006a_onMessage(p006a, i, FrameConnectAck)
         IN /\ t.socks = p006a.socks
            /\ t.logs[Len(t.logs)].type # "periodic_pong_started"

\* C26: when the ConnectAck advertises a heartbeat interval of ping seconds,
\* the heartbeat armed by it has the base interval ping * 1000 ms: the delay
\* of scheduleNextPong is that base plus the jitter drawn.
C26_BaseIntervalFromAck ==
  (prog = "hb" /\ hb.variant = "v470" /\ hb.delay > 0) =>
     \E r \in 0 .. 2 * hb.jitterMs :
        hb.delay = hb.ping * 1000 + (r - hb.jitterMs)

\* C27: when a fire of the heartbeat timer finds its transport not open, the
\* send is not made and the scheduler is disarmed: no heartbeat timer is
\* pending afterwards.
C27_FailedSendDisarms ==
  (/\ prog = "p006a" /\ ~p006a.exited
   /\ p006a.periodicPongTimer # NoSock
   /\ p006a.socks[p006a.periodicPongTimer].readyState # "OPEN")
    => LET t == p006a_periodicPong(p006a)
       IN /\ t.socks = p006a.socks
          /\ t.periodicPongTimer = NoSock

\* socket i is steady, has sent n heartbeat acknowledgements and the model
\* can record one more
V470HeartbeatDue(i, n) ==
  /\ prog = "v470" /\ i \in DOMAIN v470.socks
  /\ V470Steady(v470, i)
  /\ Count(v470.socks[i].sent, "pong_type3") = n
  /\ Len(v470.socks[i].sent) < MaxSent

\* C28: while the transport stays open after its ConnectAck the heartbeat
\* timer is pending, and it is armed again after every fire: whatever the
\* number of acknowledgements sent so far, one more is sent unless the
\* transport stops being open.
C28_HeartbeatCadenceContinues ==
  /\ [](\A i \in DOMAIN v470.socks :
          (prog = "v470" /\ V470Steady(v470, i)) => v470.pongTimer.pending)
  /\ \A i \in 1 .. MaxSockets, n \in 0 .. MaxSent :
       V470HeartbeatDue(i, n) ~>
          \/ ~(i \in DOMAIN v470.socks /\ v470.socks[i].readyState = "OPEN")
          \/ Count(v470.socks[i].sent, "pong_type3") > n

\* a steady transport on which the timer has fired twice and is armed again
C28_Witness ==
  /\ prog = "v470" /\ ~v470.exited
  /\ \E i \in DOMAIN v470.socks :
       /\ V470Steady(v470, i)
       /\ Count(v470.socks[i].sent, "pong_type3") = 2
       /\ v470.pongTimer.pending

\* C29: no application heartbeat acknowledgement is sent on a transport
\* before the ConnectAck of that transport has been received.
C29_NoHeartbeatBeforeAck ==
  prog = "p002" =>
    \A i \in DOMAIN p002.socks :
      Count(p002.socks[i].sent, "pong_type3") > 0 => p002.socks[i].acked

\* C30: an object that has a connect field but not the id of the connect
\* request (1) is not a ConnectAck: received on an open transport it records
\* no client id, arms no subscribe timer and no heartbeat timer.
C30_AckNeedsHandshakeId ==
  LET m == [Obj EXCEPT !.connect = "client"] IN
  \A i \in DOMAIN v470.socks :
    (prog = "v470" /\ ~v470.exited /\ v470.socks[i].readyState = "OPEN")
      => LET t == v470_onMessage(v470, i, m)
         IN /\ t.lastConnectClientId = v470.lastConnectClientId
            /\ t.socks[i].subTimer = v470.socks[i].subTimer
            /\ t.socks[i].gotConnectAck = v470.socks[i].gotConnectAck
            /\ t.pongTimer = v470.pongTimer

\* sequence a is the last Len(a) elements of sequence b
IsSuffixOf(a, b) ==
  /\ Len(a) <= Len(b)
  /\ a = SubSeq(b, Len(b) - Len(a) + 1, Len(b))

\* C31: whatever entry is inserted next, the entries retained afterwards are
\* the last ones of the entries retained before followed by the new entry,
\* in that order (so the retained entries are always a contiguous suffix of
\* what was inserted and only the oldest are evicted), and the new entry is
\* the last retained entry whenever it fits the byte cap by itself.
C31_RetainedIsSuffix ==
  \A entry \in LogEntries :
    LET keptFin == fin_pushLog(fin, entry).logs
        keptC   == p006c_addLog(p006c, entry.type).logs
    IN /\ IsSuffixOf(keptFin, Append(fin.logs, entry))
       /\ entry.size <= MaxLogBytes =>
            (keptFin # <<>> /\ keptFin[Len(keptFin)] = entry)
       /\ IsSuffixOf(keptC, Append(p006c.logs, entry.type))
       /\ keptC # <<>> /\ keptC[Len(keptC)] = entry.type

\* an entry that fills the byte cap by itself was inserted: it is retained
\* alone, everything older was evicted, and the count-capped log is full
C31_Witness ==
  /\ prog = "pushLog"
  /\ Len(fin.logs) = 1 /\ fin.logs[1].size = MaxLogBytes
  /\ fin.logs[1].type # "http_listen"
  /\ Len(p006c.logs) = MaxLogEntries /\ p006c.logs[MaxLogEntries] = fin.logs[1].type

\* C32: a frame whose JSON text is null, or a number or a string (valid
\* JSON that is none of the known message kinds), delivered on an open
\* socket, leaves the whole state of the program as it was: nothing is sent,
\* no session field changes and the process goes on running.
C32_UnrecognizedChangesNothing ==
  \A i \in DOMAIN p006b.socks :
    (prog = "p006b" /\ ~p006b.exited /\ p006b.socks[i].readyState = "OPEN")
      => \A m \in {FrameNull, [Obj EXCEPT !.kind = "scalar"]} :
           p006b_onMessage(p006b, i, m) = p006b

\* attempt counts for which the delay curve is compared with the source's
\* expression (beyond the source's clamp of the exponent at 10)
MaxAttempt == 12

\* C33: the 'close' handler of server.js v4.7.0 adds exactly one to attempt
\* and arms the backoff timer with min(MAX_BACKOFF_MS, BASE_BACKOFF_MS *
\* 2^attempt) for the value attempt has after that increment; the delay is
\* a function of attempt alone, and for every attempt count the source's
\* expression (with its exponent clamped at 10) gives that same value.
C33_DelayIsCurveOfAttempt ==
  /\ [][\A i \in DOMAIN v470.socks :
          (prog = "v470" /\ ~v470'.exited /\ Closed(v470, v470', i)) =>
             /\ v470'.attempt = v470.attempt + 1
             /\ v470'.backoffTimer =
                  [pending |-> TRUE,
                   delay |-> Min(MAX_BACKOFF_MS,
                                 BASE_BACKOFF_MS * Pow(2, v470'.attempt))]]_vars
  /\ [](\A n \in 0 .. MaxAttempt :
          v470_backoff(n) = Min(MAX_BACKOFF_MS, BASE_BACKOFF_MS * Pow(2, n)))

\* two sockets in a row closed without ever opening: attempt is 2 and the
\* backoff timer is armed with four times the base delay
C33_Witness ==
  /\ prog = "v470" /\ ~v470.exited /\ v470.attempt = 2
  /\ v470.backoffTimer = [pending |-> TRUE, delay |-> 4 * BASE_BACKOFF_MS]
  /\ \A i \in {1, 2} : i \in DOMAIN v470.socks /\ v470.socks[i].readyState = "CLOSED"

\* C34: after every insertion the running counter logsBytes of server.js is
\* the sum of approxSizeOfObj over the entries the log holds, and is not
\* negative, also after an entry larger than the byte cap was inserted and
\* evicted again.
C34_ByteCounterIsExact ==
  /\ fin.logsBytes = SumSizes(fin.logs)
  /\ fin.logsBytes >= 0

\* an entry larger than the byte cap was inserted: the loop evicted it with
\* everything older and the counter is back at zero
C34_Witness ==
  /\ prog = "pushLog"
  /\ fin.logs = <<>> /\ fin.logsBytes = 0
  /\ p006a.logs # <<>> /\ p006a.logs[Len(p006a.logs)].size > MaxLogBytes

\* C35: a pending application-heartbeat timer is the timer of the current
\* transport: the socket its callback sends on is the one the module
\* variable ws holds, and that socket has not closed.  (One timer handle
\* exists, and arming clears it first, so two are never pending.)  Stated on
\* part_006 with SEND_PERIODIC_PONG on, for the timer of a session that sent
\* its connect request.
C35_HeartbeatTimerOfCurrentTransport ==
  (/\ prog = "p006a" /\ ~p006a.exited /\ p006a.periodicPongTimer # NoSock
   /\ Count(p006a.socks[p006a.periodicPongTimer].sent, "connect") > 0) =>
     /\ p006a.periodicPongTimer = p006a.ws
     /\ p006a.socks[p006a.ws].readyState # "CLOSED"

\* C36: at most one restart timer (a pending setTimeout of the start step,
\* armed after a failure or after a missing token) is pending at any time,
\* and none is pending while a socket is connecting or open.  Stated on
\* part_000, whose handlers and restart() are those of part_005 and
\* part_003.
C36_OneRestartPerFailure ==
  prog = "p000" =>
    /\ p000.startTimers <= 1
    /\ p000.startTimers > 0 => LiveSockets(p000) = {}

\* C37: the first run of the watchdog on a socket, 30 s after its 'open',
\* never closes the transport: the session is not 60 s old yet, whether or
\* not a transport ping or pong was seen on it and however old the time
\* recorded by an earlier session is.
C37_WatchdogSparesYoungSession ==
  \A i \in DOMAIN p006b.socks :
    (/\ prog = "p006b" /\ ~p006b.exited
     /\ p006b.socks[i].watchdog /\ ~p006b.socks[i].watchFired
     /\ p006b.ws = i /\ p006b.socks[i].readyState = "OPEN")
      => \A old \in BOOLEAN :
           LET t == p006b_watch(p006b, i, old)
           IN /\ t.socks[i].readyState = "OPEN"
              /\ t.socks[i].closeCalls = p006b.socks[i].closeCalls

\* C38: whenever /status would report connected = true (the module variable
\* ws holds an open socket), sessionStartTs is set, and it is the time the
\* 'open' handler of that same socket recorded.  Stated for the runs in
\* which every socket opened before the open timeout and sent its connect
\* request.
C38_ConnectedHasSessionStart ==
  (/\ prog = "fin" /\ ~fin.exited /\ fin.ws # NoSock
   /\ fin.socks[fin.ws].readyState = "OPEN"
   /\ \A i \in DOMAIN fin.socks : Count(fin.socks[i].sent, "connect") > 0)
    => fin.sessionStartTs = fin.ws

\* C39: an open session does not stay open for ever once the server has
\* stopped sending transport pings (it sends a bounded number of frames, or
\* none at all): the client closes the socket, so that it leaves the open
\* state.
C39_SilentSessionIsClosed ==
  \A i \in 1 .. MaxLoopSockets :
    (/\ prog = "p006c" /\ ~p006c.crashed /\ i \in DOMAIN p006c.socks
     /\ p006c.socks[i].readyState = "OPEN")
      ~> (\/ p006c.crashed
          \/ (i \in DOMAIN p006c.socks /\ p006c.socks[i].readyState # "OPEN"))
====
